---------------------------- MODULE Spec2Model ----------------------------
(***************************************************************************)
(* benchviz: classification of benchmark names against a configured        *)
(* catalog (pkg/config), and aggregation of the classified measurements    *)
(* into a Scenario (pkg/organizer).                                        *)
(*                                                                         *)
(* Strings that are only compared (identifiers, metric names, messages)    *)
(* are TLA+ strings.  Strings that are matched by a regular expression     *)
(* (benchmark names, source paths) are sequences of tokens, and a pattern  *)
(* text is a record [pre, lit, suf, bad]: the literal token sequence lit,  *)
(* anchored at the start when pre ("^lit") and at the end when suf         *)
(* ("lit$").  The empty pattern text "" is EmptyText.  bad marks a text    *)
(* that regexp.Compile rejects.                                            *)
(***************************************************************************)
EXTENDS Integers, Sequences, FiniteSets, TLC

VARIABLES
    raw,        \* the decoded configuration document handed to load
    cfg,        \* the *config.Config held by the organizer
    sets,       \* []parser.Set handed to Scenarize
    pc,         \* position of the run
    si,         \* parseBenchmarks: index of the current set
    pending,    \* parseBenchmarks: names of the current set not yet visited
    benchmarks, \* parseBenchmarks: []ParsedBenchmark accumulated
    log,        \* records sent to the slog logger, in order
    ci,         \* populateCategories: index of the next category
    scenario,   \* the *model.Scenario under construction
    subject,    \* argument of the last direct call: name or path
    path,       \* argument of the last direct call: source path
    ret,        \* result of the last direct call, or the error execute returns
    cli,        \* execute: the command line, flags and source arguments
    fs,         \* execute: what each source path holds
    fi,         \* ParseFiles: number of sources ingested
    trace       \* execute: the sources opened and the components called, in order

vars == <<raw, cfg, sets, pc, si, pending, benchmarks, log, ci, scenario,
          subject, path, ret, cli, fs, fi, trace>>

(***************************************************************************)
(* Bounds                                                                  *)
(***************************************************************************)
MaxNameLen == 2     \* tokens in a benchmark name or source path
MaxCatalog == 2     \* entries in a catalog explored entry by entry

Tokens == {"a", "b"}

RECURSIVE SeqsUpTo(_, _)
SeqsUpTo(S, n) ==
    IF n = 0 THEN {<<>>}
    ELSE LET shorter == SeqsUpTo(S, n - 1)
         IN  shorter \cup {Append(s, x) : s \in shorter, x \in S}

Subjects == SeqsUpTo(Tokens, MaxNameLen) \ {<<>>}

(***************************************************************************)
(* Pattern texts and compiled regular expressions                          *)
(***************************************************************************)
Text(pre, lit, suf) == [pre |-> pre, lit |-> lit, suf |-> suf, bad |-> FALSE]

EmptyText == Text(FALSE, <<>>, FALSE)

BadText == [pre |-> FALSE, lit |-> <<>>, suf |-> FALSE, bad |-> TRUE]

\* a nil *regexp.Regexp is <<>>, a compiled one is <<text>>
Nil == <<>>

\* regexp.Compile
Compile(text) == IF text.bad THEN [re |-> Nil, err |-> TRUE]
                 ELSE [re |-> <<text>>, err |-> FALSE]

\* (*regexp.Regexp).MatchString: the literal occurs in s at a position the
\* anchors allow
RegexpMatchString(re, s) ==
    LET t == re[1]
        n == Len(t.lit)
    IN  \E i \in 1..(Len(s) + 1) :
            /\ i + n - 1 <= Len(s)
            /\ \A k \in 1..n : s[i + k - 1] = t.lit[k]
            /\ t.pre => i = 1
            /\ t.suf => i + n - 1 = Len(s)

(***************************************************************************)
(* config.Object                                                           *)
(***************************************************************************)
Object(id, match, notMatch) ==
    [ID |-> id, Match |-> match, NotMatch |-> notMatch,
     match |-> Nil, notMatch |-> Nil]

NoResult == [id |-> "", ok |-> FALSE]

MatchStringNoExclusionOnly(o, name) ==
    LET matchOk    == IF o.match # Nil THEN RegexpMatchString(o.match, name) ELSE FALSE
        notMatchOk == IF o.notMatch # Nil THEN RegexpMatchString(o.notMatch, name) ELSE FALSE
    IN  IF o.match = Nil /\ o.notMatch = Nil THEN NoResult
        ELSE IF matchOk /\ ~notMatchOk THEN [id |-> o.ID, ok |-> TRUE]
        ELSE NoResult

MatchString(o, name) ==
    LET matchOk    == IF o.match # Nil THEN RegexpMatchString(o.match, name) ELSE FALSE
        notMatchOk == IF o.notMatch # Nil THEN RegexpMatchString(o.notMatch, name) ELSE FALSE
    IN  IF o.match = Nil /\ o.notMatch = Nil THEN NoResult
        ELSE IF matchOk /\ ~notMatchOk THEN [id |-> o.ID, ok |-> TRUE]
        ELSE IF o.match = Nil /\ ~notMatchOk THEN [id |-> o.ID, ok |-> TRUE]
        ELSE NoResult

\* compileRex
compileRex(o) ==
    LET m == IF o.Match # EmptyText THEN Compile(o.Match) ELSE [re |-> Nil, err |-> FALSE]
        n == IF o.NotMatch # EmptyText THEN Compile(o.NotMatch) ELSE [re |-> Nil, err |-> FALSE]
    IN  IF m.err \/ n.err THEN [match |-> Nil, notMatch |-> Nil, err |-> TRUE]
        ELSE [match |-> m.re, notMatch |-> n.re, err |-> FALSE]

(***************************************************************************)
(* config.Config: lookups                                                  *)
(***************************************************************************)
MetricNsPerOp == "nsPerOp"
MetricAllocsPerOp == "allocsPerOp"
MetricBytesPerOp == "bytesPerOp"
MetricMBPerS == "MBytesPerS"

AllMetricNames == <<MetricNsPerOp, MetricAllocsPerOp, MetricBytesPerOp, MetricMBPerS>>

IsValid(m) == m \in {MetricNsPerOp, MetricAllocsPerOp, MetricBytesPerOp, MetricMBPerS}

Range(s) == {s[i] : i \in DOMAIN s}

\* the least of a set of indices of a sequence, 0 when the set is empty: the
\* loops of this package return at the first hit
FirstIndex(hits) ==
    IF hits = {} THEN 0 ELSE CHOOSE i \in hits : \A j \in hits : i <= j

\* the common loop of FindFunction, FindVersion and FindContext
FindIn(defs, name) ==
    LET hit(def) == MatchString(def, name).ok
        i == FirstIndex({k \in DOMAIN defs : hit(defs[k])})
    IN  IF i = 0 THEN NoResult ELSE MatchString(defs[i], name)

FindInLast(defs, name) ==
    LET hit(def) == MatchString(def, name).ok
        i == FirstIndex({k \in DOMAIN defs : hit(defs[k])})
    IN  IF i = 0 THEN NoResult
        ELSE MatchString(defs[CHOOSE k \in DOMAIN defs :
                                  /\ hit(defs[k])
                                  /\ \A j \in (k + 1)..Len(defs) : ~hit(defs[j])], name)

FindFunctionLast(c, name) == FindInLast(c.Functions, name)

FindFunction(c, name) == FindIn(c.Functions, name)

FindVersion(c, name) == FindIn(c.Versions, name)

\* FindContext ranges over c.Versions
FindContext(c, name) == FindIn(c.Versions, name)

\* File.MatchString
FileMatchString(f, file) ==
    IF f.match = Nil THEN NoResult
    ELSE IF ~RegexpMatchString(f.match, file) THEN NoResult
    ELSE [id |-> f.ID, ok |-> TRUE]

\* rules that match the path are tried in order until one has a nested
\* version entry that matches the path
FindVersionFromFileFirstRuleOnly(c, file) ==
    LET i == FirstIndex({k \in DOMAIN c.Files : FileMatchString(c.Files[k], file).ok})
    IN  IF i = 0 THEN NoResult ELSE FindIn(c.Files[i].Versions, file)

FindVersionFromFile(c, file) ==
    LET i == FirstIndex({k \in DOMAIN c.Files :
                            /\ FileMatchString(c.Files[k], file).ok
                            /\ FindIn(c.Files[k].Versions, file).ok})
    IN  IF i = 0 THEN NoResult ELSE FindIn(c.Files[i].Versions, file)

FindContextFromFile(c, file) ==
    LET i == FirstIndex({k \in DOMAIN c.Files :
                            /\ FileMatchString(c.Files[k], file).ok
                            /\ FindIn(c.Files[k].Contexts, file).ok})
    IN  IF i = 0 THEN NoResult ELSE FindIn(c.Files[i].Contexts, file)

GetMetric(c, id) ==
    IF id \in DOMAIN c.metricIndex THEN [v |-> c.metricIndex[id], ok |-> TRUE]
    ELSE [v |-> [ID |-> ""], ok |-> FALSE]

GetVersion(c, id) ==
    IF id \in DOMAIN c.versionIndex THEN [v |-> c.versionIndex[id], ok |-> TRUE]
    ELSE [v |-> Object("", EmptyText, EmptyText), ok |-> FALSE]


(***************************************************************************)
(* config.load, after the document is decoded.  Titles are left out: no    *)
(* lookup or aggregation reads them.                                       *)
(***************************************************************************)
IDs(catalog) == {catalog[i].ID : i \in DOMAIN catalog}

\* index built by one of the first four loops: identifier -> entry
IndexOf(catalog) ==
    [id \in IDs(catalog) |-> catalog[CHOOSE i \in DOMAIN catalog : catalog[i].ID = id]]

\* error of the first entry the loop over a dimension catalog rejects
CatalogErr(catalog, what) ==
    LET bad(i) == catalog[i].ID = "" \/ \E j \in 1..(i - 1) : catalog[j].ID = catalog[i].ID
    IN  IF \E i \in DOMAIN catalog : bad(i)
        THEN LET i == CHOOSE k \in DOMAIN catalog : bad(k) /\ \A j \in 1..(k - 1) : ~bad(j)
             IN  IF catalog[i].ID = "" THEN <<what, "empty ID", i>>
                 ELSE <<what, "duplicate ID", i>>
        ELSE <<>>

MetricsErr(metrics) ==
    LET bad(i) == \/ metrics[i].ID = ""
                  \/ ~IsValid(metrics[i].ID)
                  \/ \E j \in 1..(i - 1) : metrics[j].ID = metrics[i].ID
    IN  IF \E i \in DOMAIN metrics : bad(i)
        THEN LET i == CHOOSE k \in DOMAIN metrics : bad(k) /\ \A j \in 1..(k - 1) : ~bad(j)
             IN  IF metrics[i].ID = "" THEN <<"metrics", "empty ID", i>>
                 ELSE IF ~IsValid(metrics[i].ID) THEN <<"metrics", "invalid metric ID", i>>
                 ELSE <<"metrics", "duplicate ID", i>>
        ELSE <<>>

\* error of one reference list of a category: the first unknown reference
RefsErr(refs, index, what) ==
    LET unknown(ref) == ref \notin DOMAIN index
        j == FirstIndex({k \in DOMAIN refs : unknown(refs[k])})
    IN  IF j = 0 THEN <<>> ELSE <<"category", what, j>>

\* the metrics loop of a category with the count test off by one
MetricRefsErrUpToThree(refs, index) ==
    LET bad(j) == refs[j] \notin DOMAIN index \/ j > 3
    IN  IF \E j \in DOMAIN refs : bad(j)
        THEN LET j == CHOOSE k \in DOMAIN refs : bad(k) /\ \A l \in 1..(k - 1) : ~bad(l)
             IN  IF refs[j] \notin DOMAIN index THEN <<"category", "metric ID not found", j>>
                 ELSE <<"category", "up to 2 metrics", j>>
        ELSE IF Len(refs) = 0 THEN <<"category", "at least 1 metric", 0>>
        ELSE <<>>

\* the metrics loop of a category: an unknown reference at j, or j > 1
MetricRefsErr(refs, index) ==
    LET bad(j) == refs[j] \notin DOMAIN index \/ j > 2
    IN  IF \E j \in DOMAIN refs : bad(j)
        THEN LET j == CHOOSE k \in DOMAIN refs : bad(k) /\ \A l \in 1..(k - 1) : ~bad(l)
             IN  IF refs[j] \notin DOMAIN index THEN <<"category", "metric ID not found", j>>
                 ELSE <<"category", "up to 2 metrics", j>>
        ELSE IF Len(refs) = 0 THEN <<"category", "at least 1 metric", 0>>
        ELSE <<>>

\* the body of the categories loop for one category
CategoryErr(c, v) ==
    IF v.ID = "" THEN <<"categories", "empty ID", 0>>
    ELSE IF RefsErr(v.Includes.Functions, c.functionIndex, "function ID not found") # <<>>
         THEN RefsErr(v.Includes.Functions, c.functionIndex, "function ID not found")
    ELSE IF RefsErr(v.Includes.Contexts, c.contextIndex, "context ID not found") # <<>>
         THEN RefsErr(v.Includes.Contexts, c.contextIndex, "context ID not found")
    ELSE IF RefsErr(v.Includes.Versions, c.versionIndex, "version ID not found") # <<>>
         THEN RefsErr(v.Includes.Versions, c.versionIndex, "version ID not found")
    ELSE MetricRefsErr(v.Includes.Metrics, c.metricIndex)

CategoriesErr(c) ==
    LET bad(v) == CategoryErr(c, v) # <<>>
        i == FirstIndex({k \in DOMAIN c.Categories : bad(c.Categories[k])})
    IN  IF i = 0 THEN <<>> ELSE CategoryErr(c, c.Categories[i])

\* one of the "parse all regexps" loops: the entry with its matchers set
Compiled(o) ==
    [o EXCEPT !.match = compileRex(o).match, !.notMatch = compileRex(o).notMatch]

CompiledCatalog(catalog) == [i \in DOMAIN catalog |-> Compiled(catalog[i])]

RegexpErr(catalog, what) ==
    LET bad(o) == compileRex(o).err
        i == FirstIndex({k \in DOMAIN catalog : bad(catalog[k])})
    IN  IF i = 0 THEN <<>> ELSE <<what, "invalid regexp", i>>

\* the body of the files loop for one file rule
FileErr(c, f) ==
    IF f.ID = "" THEN <<"files", "missing ID", 0>>
    ELSE IF f.MatchFile = EmptyText THEN <<>>
    ELSE IF Compile(f.MatchFile).err THEN <<"files", "invalid regexp", 0>>
    ELSE LET badc(def) == def.ID \notin DOMAIN c.contextIndex \/ compileRex(def).err
             badv(def) == def.ID \notin DOMAIN c.versionIndex \/ compileRex(def).err
             jc == FirstIndex({k \in DOMAIN f.Contexts : badc(f.Contexts[k])})
             jv == FirstIndex({k \in DOMAIN f.Versions : badv(f.Versions[k])})
         IN  IF jc # 0
             THEN IF f.Contexts[jc].ID \notin DOMAIN c.contextIndex
                  THEN <<"files", "context ID not found", jc>>
                  ELSE <<"files", "invalid regexp in contexts", jc>>
             ELSE IF jv # 0
             THEN IF f.Versions[jv].ID \notin DOMAIN c.versionIndex
                  THEN <<"files", "version ID not found", jv>>
                  ELSE <<"files", "invalid regexp in versions", jv>>
             ELSE <<>>

FilesErr(c) ==
    LET bad(f) == FileErr(c, f) # <<>>
        i == FirstIndex({k \in DOMAIN c.Files : bad(c.Files[k])})
    IN  IF i = 0 THEN <<>> ELSE FileErr(c, c.Files[i])

\* a file rule as the files loop leaves it: untouched when MatchFile is empty
CompiledFile(f) ==
    IF f.MatchFile = EmptyText THEN f
    ELSE [f EXCEPT !.match = Compile(f.MatchFile).re,
                   !.Contexts = CompiledCatalog(f.Contexts),
                   !.Versions = CompiledCatalog(f.Versions)]

\* the configuration with its four indices (categories are validated but
\* kept as decoded: the loop works on a copy of each category)
Indexed(r) ==
    [Environment   |-> r.Environment,
     Metrics       |-> r.Metrics,
     Functions     |-> r.Functions,
     Contexts      |-> r.Contexts,
     Versions      |-> r.Versions,
     Categories    |-> r.Categories,
     Files         |-> r.Files,
     functionIndex |-> IndexOf(r.Functions),
     contextIndex  |-> IndexOf(r.Contexts),
     versionIndex  |-> IndexOf(r.Versions),
     metricIndex   |-> IndexOf(r.Metrics)]

\* first error met by load, <<>> when the configuration is accepted
loadErr(r) ==
    LET c == Indexed(r)
        steps == << CatalogErr(r.Functions, "functions"),
                    CatalogErr(r.Contexts, "contexts"),
                    CatalogErr(r.Versions, "versions"),
                    MetricsErr(r.Metrics),
                    CategoriesErr(c),
                    RegexpErr(r.Functions, "function"),
                    RegexpErr(r.Contexts, "context"),
                    RegexpErr(r.Versions, "version"),
                    FilesErr(c) >>
        failed(e) == e # <<>>
        i == FirstIndex({k \in DOMAIN steps : failed(steps[k])})
    IN  IF i = 0 THEN <<>> ELSE steps[i]

\* the configuration load returns when loadErr is <<>>
load(r) ==
    [Indexed(r) EXCEPT !.Functions = CompiledCatalog(r.Functions),
                       !.Contexts  = CompiledCatalog(r.Contexts),
                       !.Versions  = CompiledCatalog(r.Versions),
                       !.Files     = [i \in DOMAIN r.Files |-> CompiledFile(r.Files[i])]]


(***************************************************************************)
(* organizer: classification of one benchmark name                         *)
(***************************************************************************)
NoPath == <<>>

\* a record handed to the logger: the message and the file and
\* benchmark_name attributes (NoPath when the call passes none)
Warn(msg, file, name) == [msg |-> msg, file |-> file, name |-> name]

defaultString(in, def) == IF in = "" THEN def ELSE in

\* the zero ParsedBenchmark.  src is a history field, not in the code: the
\* measurement the record was made from, <<set index, name, position>>
EmptyParsed ==
    [Function |-> "", Version |-> "", Context |-> "", Metric |-> "",
     Value |-> 0, Environment |-> "", src |-> <<>>]

ClassifiedDropUnresolved(name, function, version, context, fromFile, environment) ==
    IF ~function.ok \/ (version = "" /\ context = "")
    THEN [parsed |-> EmptyParsed, ok |-> FALSE,
          versionFromFile |-> FALSE, contextFromFile |-> FALSE,
          log |-> << Warn("no function matched for %q", NoPath, name) >>]
    ELSE [parsed |-> [EmptyParsed EXCEPT !.Function = function.id,
                                         !.Version = version,
                                         !.Context = context,
                                         !.Environment = environment],
          ok |-> TRUE,
          versionFromFile |-> fromFile, contextFromFile |-> fromFile,
          log |-> << >>]

\* the return statements of parseBenchmarkName, given what the lookups
\* found.  The result also tells which lookups were made (versionFromFile,
\* contextFromFile) and what was logged.
Classified(name, function, version, context, fromFile, environment) ==
    IF ~function.ok
    THEN [parsed |-> EmptyParsed, ok |-> FALSE,
          versionFromFile |-> FALSE, contextFromFile |-> FALSE,
          log |-> << Warn("no function matched for %q", NoPath, name) >>]
    ELSE [parsed |-> [EmptyParsed EXCEPT !.Function = function.id,
                                         !.Version = version,
                                         !.Context = context,
                                         !.Environment = environment],
          ok |-> TRUE,
          versionFromFile |-> fromFile, contextFromFile |-> fromFile,
          log |-> IF version = "" /\ context = ""
                  THEN << Warn("no version, no context matched for %q", NoPath, name) >>
                  ELSE << >>]

\* the two fallbacks of parseBenchmarkName: ok is the result of FindVersion
\* in both tests, FindContext's own result is discarded
Fallbacks(c, name, file, env, function, byName) ==
    Classified(name, function,
               IF ~byName.ok THEN FindVersionFromFile(c, file).id ELSE byName.id,
               IF ~byName.ok THEN FindContextFromFile(c, file).id ELSE FindContext(c, name).id,
               ~byName.ok,
               defaultString(c.Environment, env))

parseBenchmarkName(c, name, file, env) ==
    Fallbacks(c, name, file, env, FindFunction(c, name), FindVersion(c, name))

(***************************************************************************)
(* Configurations explored                                                 *)
(***************************************************************************)
Doc(functions, versions, contexts, files, metrics, categories, env) ==
    [Environment |-> env, Metrics |-> metrics, Functions |-> functions,
     Contexts |-> contexts, Versions |-> versions, Categories |-> categories,
     Files |-> files]

EmptyDoc == Doc(<<>>, <<>>, <<>>, <<>>, <<>>, <<>>, "")

FileRule(id, matchFile, versions, contexts) ==
    [ID |-> id, MatchFile |-> matchFile, Contexts |-> contexts,
     Versions |-> versions, match |-> Nil]

EmptyScenario == [Categories |-> <<>>]

\* pattern texts: "a", "^a", "a$", "^a$" for every literal a of at most
\* MaxLitLen tokens
MaxLitLen == 1

Literals == SeqsUpTo(Tokens, MaxLitLen) \ {<<>>}

AllTexts == {EmptyText} \cup {Text(pre, lit, suf) : pre \in BOOLEAN, lit \in Literals, suf \in BOOLEAN}

\* the texts used where whole catalogs are enumerated: "", "a", "^b", "a$"
Ta == Text(FALSE, <<"a">>, FALSE)
Tb == Text(FALSE, <<"b">>, FALSE)
TbStart == Text(TRUE, <<"b">>, FALSE)
TaStart == Text(TRUE, <<"a">>, FALSE)
TaEnd == Text(FALSE, <<"a">>, TRUE)
TbEnd == Text(FALSE, <<"b">>, TRUE)

FunctionIDs == <<"f1", "f2", "f3", "f4">>
VersionIDs == <<"v1", "v2", "v3", "v4">>
ContextIDs == <<"c1", "c2", "c3", "c4">>
FileIDs == <<"r1", "r2", "r3", "r4">>

\* catalogs of at most n entries, the k-th entry named ids[k], with the
\* inclusion text drawn from ms and the exclusion text from ns
RECURSIVE Catalogs(_, _, _, _)
Catalogs(ids, n, ms, ns) ==
    IF n = 0 THEN {<<>>}
    ELSE LET shorter == Catalogs(ids, n - 1, ms, ns)
         IN  shorter \cup {Append(s, Object(ids[n], m, e)) :
                              s \in {t \in shorter : Len(t) = n - 1}, m \in ms, e \in ns}


(***************************************************************************)
(* The documented matching rule, stated on the pattern texts               *)
(***************************************************************************)
Satisfies(text, s) == RegexpMatchString(<<text>>, s)

HasInclusion(o) == o.Match # EmptyText

HasExclusion(o) == o.NotMatch # EmptyText

EntryMatches(o, s) ==
    IF HasInclusion(o)
    THEN Satisfies(o.Match, s) /\ (HasExclusion(o) => ~Satisfies(o.NotMatch, s))
    ELSE IF HasExclusion(o) THEN ~Satisfies(o.NotMatch, s)
    ELSE FALSE

\* identifier of the earliest entry of a catalog that matches s, "" if none
FirstMatch(catalog, s) ==
    IF \E i \in DOMAIN catalog : EntryMatches(catalog[i], s)
    THEN catalog[CHOOSE i \in DOMAIN catalog :
                     /\ EntryMatches(catalog[i], s)
                     /\ \A j \in 1..(i - 1) : ~EntryMatches(catalog[j], s)].ID
    ELSE ""

(***************************************************************************)
(* SpecMatch: Object.MatchString applied to one entry and one subject      *)
(***************************************************************************)
\* no command is running
NoCommand ==
    /\ cli = <<>>
    /\ fs = <<>>
    /\ fi = 0
    /\ trace = <<>>

Idle ==
    /\ NoCommand
    /\ sets = <<>>
    /\ si = 0
    /\ pending = {}
    /\ benchmarks = <<>>
    /\ log = <<>>
    /\ ci = 0
    /\ scenario = EmptyScenario

InitMatch ==
    /\ \E m \in AllTexts, n \in AllTexts :
          raw = Doc(<<Object("f1", m, n)>>, <<>>, <<>>, <<>>, <<>>, <<>>, "")
    /\ loadErr(raw) = <<>>
    /\ cfg = load(raw)
    /\ Idle
    /\ pc = "idle"
    /\ subject \in Subjects
    /\ path = NoPath
    /\ ret = NoResult

CallMatchString ==
    /\ pc = "idle"
    /\ Len(cfg.Functions) = 1
    /\ ret' = MatchString(cfg.Functions[1], subject)
    /\ pc' = "MatchString"
    /\ UNCHANGED <<raw, cfg, sets, si, pending, benchmarks, log, ci, scenario, subject, path, cli, fs, fi, trace>>

NextMatch == CallMatchString

SpecMatch == InitMatch /\ [][NextMatch]_vars

\* C1: MatchString(subject) reports a match exactly when the documented
\* rule holds for the entry's inclusion and exclusion patterns (inclusion
\* satisfied and exclusion, if any, not satisfied; exclusion only: not
\* satisfied; neither pattern: never), and returns the entry's identifier on
\* a match and the empty string otherwise.
C1_MatchStringRule ==
    pc = "MatchString" =>
        /\ ret.ok = EntryMatches(raw.Functions[1], subject)
        /\ ret.id = IF EntryMatches(raw.Functions[1], subject)
                    THEN raw.Functions[1].ID ELSE ""

C1_Witness ==
    /\ pc = "MatchString"
    /\ ~HasInclusion(raw.Functions[1])
    /\ HasExclusion(raw.Functions[1])
    /\ ret.ok
    /\ ret.id = "f1"


(***************************************************************************)
(* SpecClassify: the lookups of config.Config and parseBenchmarkName       *)
(* applied to one name and one source path, over enumerated catalogs       *)
(***************************************************************************)
MaxFiles == 2       \* file rules in a configuration
MaxNested == 1      \* version or context entries nested in a file rule

\* file rules: at most n rules, the k-th named FileIDs[k]
RECURSIVE FileRules(_, _, _, _)
FileRules(n, texts, versions, contexts) ==
    IF n = 0 THEN {<<>>}
    ELSE LET shorter == FileRules(n - 1, texts, versions, contexts)
         IN  shorter \cup {Append(s, FileRule(FileIDs[n], t, v, c)) :
                              s \in {r \in shorter : Len(r) = n - 1},
                              t \in texts, v \in versions, c \in contexts}

EveryName == <<Object("f1", Ta, EmptyText), Object("f2", Tb, EmptyText)>>

\* function catalogs with inclusion and exclusion texts
FunctionDocs ==
    {Doc(f, <<>>, <<>>, <<>>, <<>>, <<>>, "") :
        f \in Catalogs(FunctionIDs, MaxCatalog, {EmptyText, Ta, TbStart}, {EmptyText, TbEnd})}

\* version catalogs and file rules with nested versions
VersionDocs ==
    {Doc(EveryName, v, <<Object("c1", Ta, EmptyText)>>, f, <<>>, <<>>, "") :
        v \in Catalogs(VersionIDs, MaxCatalog, {TaEnd, TbStart}, {EmptyText}),
        f \in FileRules(MaxFiles, {EmptyText, Ta, TbStart},
                        Catalogs(VersionIDs, MaxNested, {TaEnd, Tb}, {EmptyText}), {<<>>})}

\* version and context catalogs and file rules with nested entries of both
ContextDocs ==
    {Doc(EveryName, v, c, f, <<>>, <<>>, "") :
        v \in Catalogs(VersionIDs, 1, {TaEnd, TbStart}, {EmptyText}),
        c \in Catalogs(ContextIDs, MaxCatalog, {TaStart, Tb}, {EmptyText}),
        f \in FileRules(1, {Ta, TbStart},
                        Catalogs(VersionIDs, MaxNested, {TbEnd}, {EmptyText}),
                        Catalogs(ContextIDs, MaxNested, {Ta, TbEnd}, {EmptyText}))}

InitClassify ==
    /\ \/ raw \in FunctionDocs /\ path = <<"a">>
       \/ raw \in VersionDocs /\ path \in Subjects
       \/ raw \in ContextDocs /\ path \in Subjects
    /\ loadErr(raw) = <<>>
    /\ cfg = load(raw)
    /\ Idle
    /\ pc = "idle"
    /\ subject \in Subjects
    /\ ret = NoResult

Call(op, result) ==
    /\ pc = "idle"
    /\ ret' = result
    /\ pc' = op
    /\ UNCHANGED <<raw, cfg, sets, si, pending, benchmarks, log, ci, scenario, subject, path, cli, fs, fi, trace>>

CallFindFunction == Call("FindFunction", FindFunction(cfg, subject))

CallFindContext == Call("FindContext", FindContext(cfg, subject))

CallParseBenchmarkName ==
    Call("parseBenchmarkName", parseBenchmarkName(cfg, subject, path, "env"))

NextClassify ==
    \/ CallFindFunction
    \/ CallFindContext
    \/ CallParseBenchmarkName

SpecClassify == InitClassify /\ [][NextClassify]_vars


\* C2: FindFunction returns the identifier of the earliest-declared entry
\* that matches the name, and not-found exactly when no entry matches.
C2_FirstMatchWins ==
    pc = "FindFunction" =>
        /\ ret.id = FirstMatch(raw.Functions, subject)
        /\ ret.ok = (\E i \in DOMAIN raw.Functions : EntryMatches(raw.Functions[i], subject))

C2_Witness ==
    /\ pc = "FindFunction"
    /\ Len(raw.Functions) = 2
    /\ EntryMatches(raw.Functions[1], subject)
    /\ EntryMatches(raw.Functions[2], subject)
    /\ ret = [id |-> "f1", ok |-> TRUE]

\* C3: the context resolved from a name is the identifier of the first
\* entry of the Contexts catalog that matches the name, and never an
\* identifier of the Versions catalog.
C3_ContextFromContexts ==
    pc = "FindContext" =>
        /\ ret.id = FirstMatch(raw.Contexts, subject)
        /\ ret.ok = (FirstMatch(raw.Contexts, subject) # "")
        /\ ret.id \notin IDs(raw.Versions)

\* C4: the file rules are consulted for the context exactly when no entry
\* of the Contexts catalog matches the name, whatever the version did.
C4_ContextFallback ==
    (pc = "parseBenchmarkName" /\ ret.ok) =>
        (ret.contextFromFile <=> FirstMatch(raw.Contexts, subject) = "")

\* the nested version of the first file rule, in declaration order, whose
\* file-path pattern matches the path and that has a nested version entry
\* matching it; "" when there is none
VersionFromRules(files, file) ==
    LET yields(r) == /\ r.MatchFile # EmptyText
                     /\ Satisfies(r.MatchFile, file)
                     /\ FirstMatch(r.Versions, file) # ""
    IN  IF \E i \in DOMAIN files : yields(files[i])
        THEN FirstMatch(files[CHOOSE i \in DOMAIN files :
                                  /\ yields(files[i])
                                  /\ \A j \in 1..(i - 1) : ~yields(files[j])].Versions, file)
        ELSE ""

C8_UnresolvedDiagnostic ==
    (pc = "parseBenchmarkName" /\ ret.ok
        /\ (ret.parsed.Version = "" \/ ret.parsed.Context = "")) =>
        ret.log # <<>>


(***************************************************************************)
(* organizer: parseBenchmarks, SeriesFor, populateCategories               *)
(***************************************************************************)
\* parseBenchmarks with the value of ns-per-op left in the allocs-per-op record
MetricRecordsNsForAllocs(c, parsed, bench) ==
    LET rec(m, value) ==
            IF GetMetric(c, m).ok
            THEN << [parsed EXCEPT !.Metric = m, !.Value = value] >>
            ELSE << >>
    IN  rec(MetricNsPerOp, bench.NsPerOp)
        \o rec(MetricAllocsPerOp, bench.NsPerOp)
        \o rec(MetricBytesPerOp, bench.AllocedBytesPerOp)
        \o rec(MetricMBPerS, bench.MBPerS)

\* the four "if metric, ok := v.cfg.GetMetric(...)" blocks for one
\* measurement: one record per configured metric, in this order
MetricRecords(c, parsed, bench) ==
    LET rec(m, value) ==
            IF GetMetric(c, m).ok
            THEN << [parsed EXCEPT !.Metric = m, !.Value = value] >>
            ELSE << >>
    IN  rec(MetricNsPerOp, bench.NsPerOp)
        \o rec(MetricAllocsPerOp, bench.AllocsPerOp)
        \o rec(MetricBytesPerOp, bench.AllocedBytesPerOp)
        \o rec(MetricMBPerS, bench.MBPerS)

\* parseBenchmarks without its "continue" on an unclassified name
IngestedKeepUnmatched(file, bench, r, recs) ==
    [records |-> recs, log |-> r.log]

\* what parseBenchmarks does with one measurement once its name is
\* classified (r) and its records are built (recs)
Ingested(file, bench, r, recs) ==
    IF ~r.ok
    THEN [records |-> << >>,
          log |-> r.log \o << Warn("benchmark not ingested", file, bench.Name) >>]
    ELSE [records |-> recs,
          log |-> r.log \o
                  (IF recs = << >>
                   THEN << Warn("no benchmark metric ingested", file, bench.Name) >>
                   ELSE << >>)]

WithSource(c, file, bench, r, src) ==
    Ingested(file, bench, r, MetricRecords(c, [r.parsed EXCEPT !.src = src], bench))

\* the body of the innermost loop of parseBenchmarks for one measurement:
\* the records and the log records it appends
Ingest(c, s, file, env, name, k, bench) ==
    WithSource(c, file, bench, parseBenchmarkName(c, bench.Name, file, env), <<s, name, k>>)

Both(one, rest) ==
    [records |-> one.records \o rest.records, log |-> one.log \o rest.log]

\* "for _, bench := range benchs": the measurements recorded under one name
RECURSIVE IngestAll(_, _, _, _, _, _, _)
IngestAll(c, s, file, env, name, benchs, k) ==
    IF k > Len(benchs) THEN [records |-> << >>, log |-> << >>]
    ELSE Both(Ingest(c, s, file, env, name, k, benchs[k]),
              IngestAll(c, s, file, env, name, benchs, k + 1))

\* SeriesFor without the lookup in indexSeries
SeriesStepNewSeriesEachTime(acc, bench, rec, metric, version, wantFunction, wantContext) ==
    IF \/ bench.Metric # metric
       \/ bench.Function # wantFunction
       \/ bench.Version # version
       \/ bench.Context # wantContext
    THEN acc
    ELSE LET idx == Len(acc.series) + 1
             series == Append(acc.series, [Title |-> version, Points |-> << >>])
             point == [Name |-> <<bench.Function, " - ", bench.Version, " - ", bench.Context>>,
                       Value |-> bench.Value,
                       rec |-> rec]
         IN  [series |-> [series EXCEPT ![idx].Points = Append(@, point)],
              indexSeries |-> [f \in DOMAIN acc.indexSeries \cup {bench.Function} |->
                                  IF f = bench.Function THEN idx ELSE acc.indexSeries[f]]]

\* the body of the innermost loop of SeriesFor for one record.  acc holds
\* series and indexSeries; rec, the position of the record in the set, is a
\* history field of the point
SeriesStep(acc, bench, rec, metric, version, wantFunction, wantContext) ==
    IF \/ bench.Metric # metric
       \/ bench.Function # wantFunction
       \/ bench.Version # version
       \/ bench.Context # wantContext
    THEN acc
    ELSE LET known == bench.Function \in DOMAIN acc.indexSeries
             idx == IF known THEN acc.indexSeries[bench.Function] ELSE Len(acc.series) + 1
             series == IF known THEN acc.series
                       ELSE Append(acc.series, [Title |-> version, Points |-> << >>])
             point == [Name |-> <<bench.Function, " - ", bench.Version, " - ", bench.Context>>,
                       Value |-> bench.Value,
                       rec |-> rec]
         IN  [series |-> [series EXCEPT ![idx].Points = Append(@, point)],
              indexSeries |-> [f \in DOMAIN acc.indexSeries \cup {bench.Function} |->
                                  IF f = bench.Function THEN idx ELSE acc.indexSeries[f]]]

\* the three nested loops of SeriesFor, from (function i, context j, record k)
RECURSIVE SeriesLoop(_, _, _, _, _, _, _, _)
SeriesLoop(acc, set, metric, version, filter, i, j, k) ==
    IF i > Len(filter.Includes.Functions) THEN acc
    ELSE IF j > Len(filter.Includes.Contexts)
         THEN SeriesLoop(acc, set, metric, version, filter, i + 1, 1, 1)
    ELSE IF k > Len(set)
         THEN SeriesLoop(acc, set, metric, version, filter, i, j + 1, 1)
    ELSE SeriesLoop(SeriesStep(acc, set[k], k, metric, version,
                               filter.Includes.Functions[i], filter.Includes.Contexts[j]),
                    set, metric, version, filter, i, j, k + 1)

SeriesFor(set, metric, version, filter) ==
    SeriesLoop([series |-> << >>, indexSeries |-> [f \in {} |-> 0]],
               set, metric, version, filter, 1, 1, 1).series

\* the zero model.Category
ZeroCategory == [ID |-> "", Environment |-> "", Data |-> << >>]

\* populateCategories with the series of every entry taken for the first
\* included metric
RECURSIVE CategoryDataLoopFirstMetricSeries(_, _, _, _, _)
CategoryDataLoopFirstMetricSeries(c, set, categoryConfig, m, v) ==
    IF m > Len(categoryConfig.Includes.Metrics) THEN << >>
    ELSE IF v > Len(categoryConfig.Includes.Versions)
         THEN CategoryDataLoopFirstMetricSeries(c, set, categoryConfig, m + 1, 1)
    ELSE LET metric == GetMetric(c, categoryConfig.Includes.Metrics[m]).v
             first == GetMetric(c, categoryConfig.Includes.Metrics[1]).v
             version == GetVersion(c, categoryConfig.Includes.Versions[v]).v
         IN  << [Metric |-> metric.ID, Version |-> version.ID,
                 Series |-> SeriesFor(set, first.ID, version.ID, categoryConfig)] >>
             \o CategoryDataLoopFirstMetricSeries(c, set, categoryConfig, m, v + 1)

\* the two inner loops of populateCategories: one CategoryData per
\* (metric, version) of the category, metric-major
RECURSIVE CategoryDataLoop(_, _, _, _, _)
CategoryDataLoop(c, set, categoryConfig, m, v) ==
    IF m > Len(categoryConfig.Includes.Metrics) THEN << >>
    ELSE IF v > Len(categoryConfig.Includes.Versions)
         THEN CategoryDataLoop(c, set, categoryConfig, m + 1, 1)
    ELSE LET metric == GetMetric(c, categoryConfig.Includes.Metrics[m]).v
             version == GetVersion(c, categoryConfig.Includes.Versions[v]).v
         IN  << [Metric |-> metric.ID, Version |-> version.ID,
                 Series |-> SeriesFor(set, metric.ID, version.ID, categoryConfig)] >>
             \o CategoryDataLoop(c, set, categoryConfig, m, v + 1)

\* the body of the outer loop of populateCategories
BuildCategory(c, set, categoryConfig) ==
    [ID |-> categoryConfig.ID,
     Environment |-> c.Environment,
     Data |-> CategoryDataLoop(c, set, categoryConfig, 1, 1)]


(***************************************************************************)
(* Spec: one run of the organizer on a loaded configuration                *)
(***************************************************************************)
MaxSets == 1        \* parsed sets handed to Scenarize
MaxNames == 2       \* distinct benchmark names in a parsed set
MaxCategories == 1  \* categories in a configuration

Metric(id) == [ID |-> id]

Category(id, functions, versions, contexts, metrics) ==
    [ID |-> id,
     Includes |-> [Functions |-> functions, Versions |-> versions,
                   Contexts |-> contexts, Metrics |-> metrics]]

CategoryIDs == <<"k1", "k2", "k3">>

RunFunctions ==
    { <<Object("f1", TaStart, TbEnd), Object("f2", EmptyText, Ta)>>,
      <<Object("f2", Tb, EmptyText), Object("f1", Ta, EmptyText)>> }

RunVersions ==
    { << >>,
      <<Object("x", TbEnd, EmptyText)>>,
      <<Object("v1", TbEnd, EmptyText), Object("x", TaEnd, EmptyText)>> }

RunContexts == { <<Object("c1", TaStart, EmptyText), Object("x", TbEnd, EmptyText)>> }

RunFiles ==
    { << >>,
      <<FileRule("r1", TaStart, <<Object("x", TaEnd, EmptyText)>>,
                                <<Object("c1", TaStart, EmptyText)>>)>> }

RunMetrics ==
    { <<Metric(MetricNsPerOp)>>, <<Metric(MetricNsPerOp), Metric(MetricAllocsPerOp)>> }

RECURSIVE RunCategories(_)
RunCategories(n) ==
    IF n = 0 THEN {<<>>}
    ELSE LET shorter == RunCategories(n - 1)
         IN  shorter \cup
             {Append(s, Category(CategoryIDs[n], f, <<"x">>, c, m)) :
                 s \in {t \in shorter : Len(t) = n - 1},
                 f \in {<<>>, <<"f1">>, <<"f2", "f1">>, <<"f1", "f1">>},
                 c \in {<<"c1">>, <<"x", "c1">>},
                 m \in {<<MetricNsPerOp>>, <<MetricNsPerOp, MetricAllocsPerOp>>}}

RunDocs ==
    {Doc(f, v, c, r, m, k, "") :
        f \in RunFunctions, v \in RunVersions, c \in RunContexts,
        r \in RunFiles, m \in RunMetrics, k \in RunCategories(MaxCategories)}

\* parse.Benchmark.  Measured is the set of the metrics the benchmark line
\* reported (the library's bit mask); a metric outside it keeps the zero
\* value.  NsPerOp is a float64: the model counts in tenths of a nanosecond
Bench(name, ns, allocs, bytes, mbs, measured) ==
    [Name |-> name, NsPerOp |-> ns, AllocsPerOp |-> allocs,
     AllocedBytesPerOp |-> bytes, MBPerS |-> mbs, Measured |-> measured]

\* a line with ns/op, B/op and allocs/op columns
First(name) == Bench(name, 3, 1, 8, 0, {MetricNsPerOp, MetricAllocsPerOp, MetricBytesPerOp})

\* a line with the ns/op column only
Second(name) == Bench(name, 5, 0, 0, 0, {MetricNsPerOp})

\* parse.Set: name -> the measurements of that name, in input order.  At
\* most MaxNames names, of which one may have been measured twice
ParseSets ==
    {[n \in names |-> IF n \in twice THEN <<First(n), Second(n)>> ELSE <<First(n)>>] :
        names \in {ns \in SUBSET Subjects : Cardinality(ns) <= MaxNames},
        twice \in {ns \in SUBSET Subjects : Cardinality(ns) <= 1}}

RunPaths == {<<"a">>, <<"a", "b">>, <<"b">>}

\* parser.Set
ParserSets ==
    {[Set |-> s, File |-> f, Environment |-> "env"] : s \in ParseSets, f \in RunPaths}

Init ==
    /\ raw \in RunDocs
    /\ cfg = Indexed(EmptyDoc)
    /\ sets \in SeqsUpTo(ParserSets, MaxSets)
    /\ pc = "load"
    /\ si = 0
    /\ pending = {}
    /\ benchmarks = <<>>
    /\ log = <<>>
    /\ ci = 0
    /\ scenario = EmptyScenario
    /\ subject = NoPath
    /\ path = NoPath
    /\ ret = NoResult
    /\ NoCommand

\* load returns the configuration
LoadOk ==
    /\ pc = "load"
    /\ loadErr(raw) = <<>>
    /\ cfg' = load(raw)
    /\ pc' = "parseBenchmarks"
    /\ UNCHANGED <<raw, sets, si, pending, benchmarks, log, ci, scenario, subject, path, ret, cli, fs, fi, trace>>

\* load returns an error: the run ends
LoadFail ==
    /\ pc = "load"
    /\ loadErr(raw) # <<>>
    /\ pc' = "failed"
    /\ UNCHANGED <<raw, cfg, sets, si, pending, benchmarks, log, ci, scenario, subject, path, ret, cli, fs, fi, trace>>

\* parseBenchmarks: "for _, set := range sets" moves to the next set
NextSet ==
    /\ pc = "parseBenchmarks"
    /\ pending = {}
    /\ si < Len(sets)
    /\ si' = si + 1
    /\ pending' = DOMAIN sets[si + 1].Set
    /\ UNCHANGED <<raw, cfg, sets, pc, benchmarks, log, ci, scenario, subject, path, ret, cli, fs, fi, trace>>

\* parseBenchmarks: "for _, benchs := range set.Set" visits one name of the
\* map, in any order, and ingests its measurements
VisitName ==
    /\ pc = "parseBenchmarks"
    /\ \E name \in pending :
          LET out == IngestAll(cfg, si, sets[si].File, sets[si].Environment,
                               name, sets[si].Set[name], 1)
          IN  /\ benchmarks' = benchmarks \o out.records
              /\ log' = log \o out.log
              /\ pending' = pending \ {name}
    /\ UNCHANGED <<raw, cfg, sets, pc, si, ci, scenario, subject, path, ret, cli, fs, fi, trace>>

\* parseBenchmarks returns; populateCategories allocates the scenario
EndParse ==
    /\ pc = "parseBenchmarks"
    /\ pending = {}
    /\ si >= Len(sets)
    /\ log' = IF Len(benchmarks) = 0
              THEN Append(log, Warn("benchmark set is empty", NoPath, NoPath))
              ELSE log
    /\ scenario' = [Categories |-> [i \in 1..Len(cfg.Categories) |-> ZeroCategory]]
    /\ ci' = 1
    /\ pc' = "populateCategories"
    /\ UNCHANGED <<raw, cfg, sets, si, pending, benchmarks, subject, path, ret, cli, fs, fi, trace>>

\* populateCategories: one turn of "for _, categoryConfig := range ..."
PopulateCategory ==
    /\ pc = "populateCategories"
    /\ ci <= Len(cfg.Categories)
    /\ scenario' = [Categories |->
                       Append(scenario.Categories,
                              BuildCategory(cfg, benchmarks, cfg.Categories[ci]))]
    /\ ci' = ci + 1
    /\ UNCHANGED <<raw, cfg, sets, pc, si, pending, benchmarks, log, subject, path, ret, cli, fs, fi, trace>>

\* populateCategories returns the scenario
Return ==
    /\ pc = "populateCategories"
    /\ ci > Len(cfg.Categories)
    /\ pc' = "done"
    /\ UNCHANGED <<raw, cfg, sets, si, pending, benchmarks, log, ci, scenario, subject, path, ret, cli, fs, fi, trace>>

Next ==
    \/ LoadOk
    \/ LoadFail
    \/ NextSet
    \/ VisitName
    \/ EndParse
    \/ PopulateCategory
    \/ Return

Spec == Init /\ [][Next]_vars


(***************************************************************************)
(* Properties of a run                                                     *)
(***************************************************************************)
Loaded == pc \in {"parseBenchmarks", "populateCategories", "done"}

\* the measurements parseBenchmarks has been through: <<set, name, position>>
Processed ==
    UNION {UNION {{<<s, name, k>> : k \in DOMAIN sets[s].Set[name]} :
                     name \in {n \in DOMAIN sets[s].Set :
                                  s < si \/ (s = si /\ n \notin pending)}} :
              s \in DOMAIN sets}

\* the points of the scenario
Points ==
    UNION {UNION {UNION {Range(scenario.Categories[c].Data[d].Series[k].Points) :
                            k \in DOMAIN scenario.Categories[c].Data[d].Series} :
                     d \in DOMAIN scenario.Categories[c].Data} :
              c \in DOMAIN scenario.Categories}

Unclassified(name) == FirstMatch(raw.Functions, name) = ""

\* C6: a measurement whose name matches no function entry is left out: no
\* record is made from it, and no point of the scenario derives from it.
C6_UnmatchedExcluded ==
    Loaded =>
        /\ \A i \in DOMAIN benchmarks : ~Unclassified(benchmarks[i].src[2])
        /\ \A p \in Points : ~Unclassified(benchmarks[p.rec].src[2])
        /\ \A m \in Processed :
              Unclassified(m[2]) => \A i \in DOMAIN benchmarks : benchmarks[i].src # m

C6_Witness ==
    /\ pc = "done"
    /\ \E m \in Processed : Unclassified(m[2])
    /\ Points # {}

\* log records about a benchmark name
About(name) == {i \in DOMAIN log : log[i].name = name}

\* measurements of a name over all the sets
Measured(name) == {m \in Processed : m[2] = name}

\* C7: each measurement whose name matches no function entry produces
\* exactly one diagnostic, which carries the source path, the benchmark name
\* and the reason "unclassified function".
C7_OneDiagnostic ==
    pc = "done" =>
        \A m \in Processed :
            Unclassified(m[2]) =>
                /\ Cardinality(About(m[2])) = Cardinality(Measured(m[2]))
                /\ \A i \in About(m[2]) :
                      /\ log[i].file # NoPath
                      /\ log[i].msg = "unclassified function"

\* the nested context of the first file rule that matches the path and has
\* a nested context entry matching it; "" when there is none
ContextFromRules(files, file) ==
    LET yields(r) == /\ r.MatchFile # EmptyText
                     /\ Satisfies(r.MatchFile, file)
                     /\ FirstMatch(r.Contexts, file) # ""
    IN  IF \E i \in DOMAIN files : yields(files[i])
        THEN FirstMatch(files[CHOOSE i \in DOMAIN files :
                                  /\ yields(files[i])
                                  /\ \A j \in 1..(i - 1) : ~yields(files[j])].Contexts, file)
        ELSE ""

\* scenario D: the function resolves, version and context match neither by
\* name nor by file rule
ScenarioD(m) ==
    /\ ~Unclassified(m[2])
    /\ FirstMatch(raw.Versions, m[2]) = ""
    /\ FirstMatch(raw.Contexts, m[2]) = ""
    /\ VersionFromRules(raw.Files, sets[m[1]].File) = ""
    /\ ContextFromRules(raw.Files, sets[m[1]].File) = ""

\* C9: a record of scenario D is retained, with empty version and context
\* identifiers, for each configured metric, and contributes no point to any
\* category, for every configuration load accepts.
C9_ScenarioD ==
    Loaded =>
        \A m \in Processed :
            ScenarioD(m) =>
                /\ \A id \in IDs(raw.Metrics) :
                      \E i \in DOMAIN benchmarks :
                          /\ benchmarks[i].src = m
                          /\ benchmarks[i].Metric = id
                          /\ benchmarks[i].Version = ""
                          /\ benchmarks[i].Context = ""
                /\ \A p \in Points : benchmarks[p.rec].src # m

C9_Witness ==
    /\ pc = "done"
    /\ \E m \in Processed :
          /\ ScenarioD(m)
          /\ \E i \in DOMAIN benchmarks : benchmarks[i].src = m
    /\ Len(cfg.Categories) > 0
    /\ Points # {}


\* the records SeriesFor has to put in the series of function f
Matching(filter, metric, version, f) ==
    {i \in DOMAIN benchmarks :
        /\ benchmarks[i].Metric = metric
        /\ benchmarks[i].Version = version
        /\ benchmarks[i].Function = f
        /\ benchmarks[i].Context \in Range(filter.Includes.Contexts)}

\* the functions of the category with at least one matching record
Served(filter, metric, version) ==
    {f \in Range(filter.Includes.Functions) : Matching(filter, metric, version, f) # {}}

FirstPosition(list, x) ==
    CHOOSE i \in DOMAIN list : list[i] = x /\ \A j \in 1..(i - 1) : list[j] # x

\* the function a series was created for: that of its first point
SeriesFunction(series) == benchmarks[series.Points[1].rec].Function

OneSeriesPerFunction(filter, data) ==
    LET served == Served(filter, data.Metric, data.Version)
        fn(k) == SeriesFunction(data.Series[k])
    IN  /\ Len(data.Series) = Cardinality(served)
        /\ \A k \in DOMAIN data.Series :
              /\ Len(data.Series[k].Points) >= 1
              /\ fn(k) \in served
              /\ {data.Series[k].Points[q].rec : q \in DOMAIN data.Series[k].Points}
                    = Matching(filter, data.Metric, data.Version, fn(k))
        /\ \A k \in DOMAIN data.Series : \A l \in DOMAIN data.Series :
              k < l => /\ fn(k) # fn(l)
                       /\ FirstPosition(filter.Includes.Functions, fn(k))
                             < FirstPosition(filter.Includes.Functions, fn(l))

\* the categories populateCategories has built: they follow the entries the
\* scenario was allocated with
Built(j) == scenario.Categories[Len(cfg.Categories) + j]

\* C10: for every category, metric and version, SeriesFor returns exactly
\* one series per function of the category that has a matching record; all
\* the matching records of the function have their point in that one
\* series; the series follow the category's function order.
C10_OneSeriesPerFunction ==
    pc \in {"populateCategories", "done"} =>
        \A j \in 1..(ci - 1) :
            \A d \in DOMAIN Built(j).Data :
                OneSeriesPerFunction(cfg.Categories[j], Built(j).Data[d])

\* two series in the category's function order, one of them with the points
\* of two records
C10_Witness ==
    /\ pc = "done"
    /\ \E j \in 1..(ci - 1) : \E d \in DOMAIN Built(j).Data :
          LET series == Built(j).Data[d].Series
          IN  /\ Len(series) = 2
              /\ cfg.Categories[j].Includes.Functions = <<"f2", "f1">>
              /\ SeriesFunction(series[1]) = "f2"
              /\ \E k \in DOMAIN series :
                    \E q \in DOMAIN series[k].Points : \E r \in DOMAIN series[k].Points :
                        series[k].Points[q].rec # series[k].Points[r].rec

(***************************************************************************)
(* SpecScenario: runs of the organizer on the catalog of the documented    *)
(* scenario A.  The benchmark name BenchmarkEqual_generic/int-8 is the     *)
(* token sequence NameGenericInt.                                          *)
(***************************************************************************)
NameGenericInt == <<"BenchmarkEqual", "_generic", "/int-", "8">>
NameReflectInt == <<"BenchmarkEqual", "_reflect", "/int-", "8">>
NameOther == <<"BenchmarkOther", "/int-", "8">>

\* "^BenchmarkEqual", "_generic$", "_generic", "_reflect", "/int-", "bench"
TEqual == Text(TRUE, <<"BenchmarkEqual">>, FALSE)
TGenericEnd == Text(FALSE, <<"_generic">>, TRUE)
TGeneric == Text(FALSE, <<"_generic">>, FALSE)
TReflect == Text(FALSE, <<"_reflect">>, FALSE)
TInt == Text(FALSE, <<"/int-">>, FALSE)
TBench == Text(FALSE, <<"bench">>, FALSE)

ScenarioFunctions == <<Object("equal", TEqual, EmptyText)>>

ScenarioVersions ==
    { <<Object("generic", TGenericEnd, EmptyText)>>,
      <<Object("generic", TGeneric, EmptyText)>>,
      <<Object("generic", TGenericEnd, EmptyText), Object("reflect", TReflect, EmptyText)>> }

ScenarioContexts == <<Object("int", TInt, EmptyText)>>

\* no file rule, or one that gives version generic and context int to the
\* measurements of a source whose path contains "bench"
ScenarioFiles ==
    { << >>,
      <<FileRule("bench", TBench, <<Object("generic", TBench, EmptyText)>>,
                                  <<Object("int", TBench, EmptyText)>>)>> }

ScenarioMetrics ==
    { <<Metric(MetricNsPerOp)>>, <<Metric(MetricNsPerOp), Metric(MetricAllocsPerOp)>> }

ScenarioCategories ==
    { <<Category("k1", f, v, <<"int">>, m)>> :
        f \in {<<"equal">>, <<"equal", "equal">>},
        v \in {<<"generic">>, <<"generic", "reflect">>},
        m \in {<<MetricNsPerOp>>, <<MetricNsPerOp, MetricAllocsPerOp>>} }

ScenarioEnvironments == {"", "ci"}

ScenarioDocs ==
    {Doc(ScenarioFunctions, v, ScenarioContexts, r, m, k, e) :
        v \in ScenarioVersions, r \in ScenarioFiles, m \in ScenarioMetrics,
        k \in ScenarioCategories, e \in ScenarioEnvironments}

\* a benchmark line "<name> <N> 12.3 ns/op": no other column
Reported(name) == Bench(name, 123, 0, 0, 0, {MetricNsPerOp})

ScenarioParseSets ==
    {[n \in names |-> <<Reported(n)>>] :
        names \in SUBSET {NameGenericInt, NameReflectInt, NameOther}}

\* what extractEnvironment returns for a report without, and with, the three
\* recognized lines
ExtractedEnvironments == {"unknown environment", "linux amd64 cpu: Intel"}

ScenarioSets ==
    {[Set |-> s, File |-> f, Environment |-> e] :
        s \in ScenarioParseSets,
        f \in {<<"bench">>, <<"other">>},
        e \in ExtractedEnvironments}

InitScenario ==
    /\ raw \in ScenarioDocs
    /\ cfg = Indexed(EmptyDoc)
    /\ sets \in {<< >>} \cup {<<s>> : s \in ScenarioSets}
    /\ pc = "load"
    /\ si = 0
    /\ pending = {}
    /\ benchmarks = <<>>
    /\ log = <<>>
    /\ ci = 0
    /\ scenario = EmptyScenario
    /\ subject = NoPath
    /\ path = NoPath
    /\ ret = NoResult
    /\ NoCommand

SpecScenario == InitScenario /\ [][Next]_vars

\* the categories built so far, each with the configured category it was
\* built from
BuiltData ==
    {<<j, d>> \in (1..Len(cfg.Categories)) \X (1..(MaxCatalog * MaxCatalog)) :
        /\ pc \in {"populateCategories", "done"}
        /\ j < ci
        /\ d \in DOMAIN Built(j).Data}

\* position of the context of the record behind point q of a series
ContextPosition(filter, series, q) ==
    FirstPosition(filter.Includes.Contexts, benchmarks[series.Points[q].rec].Context)

PointsExact(filter, data) ==
    \A k \in DOMAIN data.Series :
        LET series == data.Series[k]
        IN  /\ {series.Points[q].rec : q \in DOMAIN series.Points}
                  = Matching(filter, data.Metric, data.Version, SeriesFunction(series))
            /\ \A q \in DOMAIN series.Points : \A r \in DOMAIN series.Points :
                  q < r =>
                     /\ series.Points[q].rec # series.Points[r].rec
                     /\ \/ ContextPosition(filter, series, q) < ContextPosition(filter, series, r)
                        \/ /\ ContextPosition(filter, series, q) = ContextPosition(filter, series, r)
                           /\ series.Points[q].rec < series.Points[r].rec

\* C11: the points of each series are exactly the matching records of its
\* function, one point per matching record, ordered by the position of the
\* record's context in the category's context list and, within a context, by
\* record order; also when an inclusion list names an identifier twice.
C11_PointsOncePerRecord ==
    \A b \in BuiltData : PointsExact(cfg.Categories[b[1]], Built(b[1]).Data[b[2]])

\* the measurement a record was made from
MeasurementOf(src) == sets[src[1]].Set[src[2]][src[3]]

\* the value the benchmark line carries for a metric
RawValue(bench, metric) ==
    CASE metric = MetricNsPerOp -> bench.NsPerOp
      [] metric = MetricAllocsPerOp -> bench.AllocsPerOp
      [] metric = MetricBytesPerOp -> bench.AllocedBytesPerOp
      [] metric = MetricMBPerS -> bench.MBPerS

\* the separator SeriesFor writes: space, hyphen-minus, space
Hyphen == " - "

\* the separator of the documentation: space, en dash (U+2013), space; a
\* module is ASCII text, so the en dash is written by its code point
EnDash == " U+2013 "

PointOf(p, separator) ==
    LET r == benchmarks[p.rec]
    IN  /\ p.Name = <<r.Function, separator, r.Version, separator, r.Context>>
        /\ p.Value = RawValue(MeasurementOf(r.src), r.Metric)

C13_NoZeroFilledPoints ==
    /\ \A i \in DOMAIN benchmarks :
          benchmarks[i].Metric \in MeasurementOf(benchmarks[i].src).Measured
    /\ \A p \in Points :
          benchmarks[p.rec].Metric \in MeasurementOf(benchmarks[p.rec].src).Measured

\* the points of one CategoryData
PointsOf(data) == UNION {Range(data.Series[k].Points) : k \in DOMAIN data.Series}

\* entry (m - 1) * nv + v of the list is the entry of the m-th included
\* metric and the v-th included version, and holds records of that metric
\* and version only
OneEntryPerPair(filter, category) ==
    LET nm == Len(filter.Includes.Metrics)
        nv == Len(filter.Includes.Versions)
    IN  /\ Len(category.Data) = nm * nv
        /\ \A m \in 1..nm : \A v \in 1..nv :
              LET data == category.Data[(m - 1) * nv + v]
              IN  /\ data.Metric = filter.Includes.Metrics[m]
                  /\ data.Version = filter.Includes.Versions[v]
                  /\ \A p \in PointsOf(data) :
                        /\ benchmarks[p.rec].Metric = filter.Includes.Metrics[m]
                        /\ benchmarks[p.rec].Version = filter.Includes.Versions[v]
                  /\ \A i \in DOMAIN benchmarks :
                        (/\ benchmarks[i].Metric = filter.Includes.Metrics[m]
                         /\ benchmarks[i].Version = filter.Includes.Versions[v]
                         /\ benchmarks[i].Function \in Range(filter.Includes.Functions)
                         /\ benchmarks[i].Context \in Range(filter.Includes.Contexts))
                        => \E p \in PointsOf(data) : p.rec = i

\* C14: the CategoryData list of a category has exactly one entry per
\* (included metric, included version) pair, metric-major then in version
\* order, and the series of an entry hold the records of its own metric and
\* version, all of them and no other.
C14_OneEntryPerMetricVersion ==
    pc \in {"populateCategories", "done"} =>
        \A j \in 1..(ci - 1) : OneEntryPerPair(cfg.Categories[j], Built(j))

\* two metrics and two versions: four entries, those of the first version
\* with points of their own metric
C14_Witness ==
    /\ pc = "done"
    /\ \E j \in 1..(ci - 1) :
          /\ Len(cfg.Categories[j].Includes.Metrics) = 2
          /\ Len(cfg.Categories[j].Includes.Versions) = 2
          /\ Len(Built(j).Data) = 4
          /\ PointsOf(Built(j).Data[1]) # {}
          /\ PointsOf(Built(j).Data[3]) # {}
          /\ PointsOf(Built(j).Data[1]) \cap PointsOf(Built(j).Data[3]) = {}

\* the configuration of scenario A: the three catalog entries, metric
\* ns-per-op enabled, one category including all three and that metric
ScenarioA ==
    /\ raw.Functions = ScenarioFunctions
    /\ raw.Versions = <<Object("generic", TGenericEnd, EmptyText)>>
    /\ raw.Contexts = ScenarioContexts
    /\ raw.Files = << >>
    /\ raw.Metrics = <<Metric(MetricNsPerOp)>>
    /\ raw.Categories = <<Category("k1", <<"equal">>, <<"generic">>, <<"int">>, <<MetricNsPerOp>>)>>

\* the measurement BenchmarkEqual_generic/int-8 with 12.3 ns/op has been
\* ingested
ScenarioAMeasured ==
    \E m \in Processed : m[2] = NameGenericInt /\ MeasurementOf(m).NsPerOp = 123

\* C15: in scenario A, the measurement BenchmarkEqual_generic/int-8 with
\* 12.3 ns/op yields, in the (ns-per-op, generic) CategoryData, a series for
\* function "equal" with a point named "equal U+2013 generic U+2013 int" of
\* value 12.3.
C15_ScenarioA ==
    (pc = "done" /\ ScenarioA /\ ScenarioAMeasured) =>
        \E b \in BuiltData :
            LET data == Built(b[1]).Data[b[2]]
            IN  /\ data.Metric = MetricNsPerOp
                /\ data.Version = "generic"
                /\ \E k \in DOMAIN data.Series :
                      /\ SeriesFunction(data.Series[k]) = "equal"
                      /\ \E q \in DOMAIN data.Series[k].Points :
                            /\ data.Series[k].Points[q].Name
                                  = <<"equal", EnDash, "generic", EnDash, "int">>
                            /\ data.Series[k].Points[q].Value = 123

\* C19: every category populateCategories builds carries a non-empty
\* Environment; when the configuration declares none, it is the environment
\* extracted from an ingested source (the sentinel "unknown environment"
\* when no field was recognized).
C19_EnvironmentNeverBlank ==
    pc \in {"populateCategories", "done"} =>
        \A j \in 1..(ci - 1) :
            /\ Built(j).Environment # ""
            /\ (raw.Environment = "" /\ Len(sets) > 0) =>
                  \E s \in DOMAIN sets : Built(j).Environment = sets[s].Environment

(***************************************************************************)
(* SpecLoad: load on configurations with and without defects               *)
(***************************************************************************)
LoadFunctions ==
    { <<Object("f1", Ta, EmptyText)>>,
      <<Object("f1", Ta, EmptyText), Object("f2", Tb, EmptyText)>>,
      <<Object("f1", Ta, EmptyText), Object("f1", Tb, EmptyText)>>,
      <<Object("", Ta, EmptyText)>>,
      <<Object("f1", Ta, EmptyText), Object("", Tb, EmptyText)>>,
      <<Object("f1", BadText, EmptyText)>> }

LoadVersions ==
    { << >>,
      <<Object("v1", Ta, EmptyText)>>,
      <<Object("v1", Ta, EmptyText), Object("v1", Tb, EmptyText)>>,
      <<Object("", Ta, EmptyText)>> }

LoadContexts ==
    { << >>,
      <<Object("c1", Ta, EmptyText)>>,
      <<Object("c1", Ta, EmptyText), Object("c1", Tb, EmptyText)>>,
      <<Object("", Ta, EmptyText)>> }

LoadMetrics ==
    { <<Metric(MetricNsPerOp)>>,
      <<Metric(MetricNsPerOp), Metric(MetricAllocsPerOp)>>,
      <<Metric(MetricNsPerOp), Metric(MetricNsPerOp)>>,
      <<Metric("")>>,
      <<Metric("secondsPerOp")>>,
      <<Metric(MetricNsPerOp), Metric("secondsPerOp")>> }

LoadCategories ==
    { << >> } \cup
    { <<Category("k1", f, v, c, m)>> :
        f \in {<< >>, <<"f1">>, <<"f2">>},
        v \in {<< >>, <<"v1">>},
        c \in {<< >>, <<"c1">>},
        m \in {<< >>, <<MetricNsPerOp>>, <<MetricAllocsPerOp>>,
               <<MetricNsPerOp, MetricAllocsPerOp>>,
               <<MetricNsPerOp, MetricNsPerOp>>,
               <<MetricNsPerOp, MetricAllocsPerOp, MetricNsPerOp>>,
               <<MetricNsPerOp, MetricNsPerOp, MetricNsPerOp>>} }

LoadDocs ==
    {Doc(f, v, c, << >>, m, k, "") :
        f \in LoadFunctions, v \in LoadVersions, c \in LoadContexts,
        m \in LoadMetrics, k \in LoadCategories}

InitLoad ==
    /\ raw \in LoadDocs
    /\ cfg = Indexed(EmptyDoc)
    /\ sets = << >>
    /\ pc = "load"
    /\ si = 0
    /\ pending = {}
    /\ benchmarks = <<>>
    /\ log = <<>>
    /\ ci = 0
    /\ scenario = EmptyScenario
    /\ subject = NoPath
    /\ path = NoPath
    /\ ret = NoResult
    /\ NoCommand

NextLoad ==
    \/ LoadOk
    \/ LoadFail

SpecLoad == InitLoad /\ [][NextLoad]_vars

\* the defects of the claim, read on the decoded document
EmptyOrDuplicateID(catalog) ==
    \/ \E i \in DOMAIN catalog : catalog[i].ID = ""
    \/ \E i \in DOMAIN catalog : \E j \in DOMAIN catalog :
          i # j /\ catalog[i].ID = catalog[j].ID

MetricOutsideEnumeration(r) ==
    \E i \in DOMAIN r.Metrics : r.Metrics[i].ID \notin Range(AllMetricNames)

DanglingReference(r) ==
    \E k \in DOMAIN r.Categories :
        LET inc == r.Categories[k].Includes
        IN  \/ \E ref \in Range(inc.Functions) : \A i \in DOMAIN r.Functions : r.Functions[i].ID # ref
            \/ \E ref \in Range(inc.Versions) : \A i \in DOMAIN r.Versions : r.Versions[i].ID # ref
            \/ \E ref \in Range(inc.Contexts) : \A i \in DOMAIN r.Contexts : r.Contexts[i].ID # ref
            \/ \E ref \in Range(inc.Metrics) : \A i \in DOMAIN r.Metrics : r.Metrics[i].ID # ref

BadMetricCount(r) ==
    \E k \in DOMAIN r.Categories :
        Len(r.Categories[k].Includes.Metrics) \notin {1, 2}

Defective(r) ==
    \/ EmptyOrDuplicateID(r.Functions)
    \/ EmptyOrDuplicateID(r.Versions)
    \/ EmptyOrDuplicateID(r.Contexts)
    \/ EmptyOrDuplicateID(r.Metrics)
    \/ MetricOutsideEnumeration(r)
    \/ DanglingReference(r)
    \/ BadMetricCount(r)

\* an error load returns for one of these defects
ListedError(e) == e[1] \in {"functions", "versions", "contexts", "metrics", "category"}

\* C20: load returns no configuration for a document with an empty or
\* duplicate identifier in a catalog, a metric identifier outside the
\* enumeration, a category reference absent from its catalog, or a category
\* with zero or more than two metrics; a document with none of these defects
\* is not rejected with the error of one of them.
C20_LoadValidates ==
    /\ Defective(raw) => (pc \in {"load", "failed"} /\ cfg = Indexed(EmptyDoc))
    /\ (pc = "failed" /\ ~Defective(raw)) => ~ListedError(loadErr(raw))

\* a category with three known metrics, and no other defect, is rejected
C20_Witness ==
    /\ pc = "failed"
    /\ loadErr(raw) = <<"category", "up to 2 metrics", 3>>
    /\ ~EmptyOrDuplicateID(raw.Functions) /\ ~EmptyOrDuplicateID(raw.Metrics)
    /\ ~DanglingReference(raw)
    /\ raw.Categories[1].Includes.Metrics = <<MetricNsPerOp, MetricAllocsPerOp, MetricNsPerOp>>

(***************************************************************************)
(* parser: report texts.  A text is a sequence of items: LF, SP, or a word *)
(* (a run of characters without white space, kept whole).                  *)
(***************************************************************************)
LF == "\n"

SP == " "

\* strings.Split(text, "\n")
RECURSIVE Split(_)
Split(text) ==
    IF \A i \in DOMAIN text : text[i] # LF THEN <<text>>
    ELSE LET i == FirstIndex({k \in DOMAIN text : text[k] = LF})
         IN  <<SubSeq(text, 1, i - 1)>> \o Split(SubSeq(text, i + 1, Len(text)))

\* the tokens of a bufio.Scanner with the default split function: the lines
\* without their terminator; no token for the empty remainder after the last
\* terminator
ScanLines(text) ==
    LET lines == Split(text)
    IN  IF lines[Len(lines)] = << >> THEN SubSeq(lines, 1, Len(lines) - 1) ELSE lines

\* strings.TrimSpace
TrimSpace(line) ==
    LET keep == {i \in DOMAIN line : line[i] # SP}
    IN  IF keep = {} THEN << >>
        ELSE SubSeq(line, FirstIndex(keep), CHOOSE i \in keep : \A j \in keep : j <= i)

\* strings.HasPrefix, strings.TrimPrefix
HasPrefix(s, prefix) == Len(s) >= Len(prefix) /\ SubSeq(s, 1, Len(prefix)) = prefix

TrimPrefix(s, prefix) == IF HasPrefix(s, prefix) THEN SubSeq(s, Len(prefix) + 1, Len(s)) ELSE s

\* strings.Join
RECURSIVE Join(_, _)
Join(parts, sep) ==
    IF Len(parts) = 0 THEN << >>
    ELSE IF Len(parts) = 1 THEN parts[1]
    ELSE parts[1] \o <<sep>> \o Join(Tail(parts), sep)

\* strings.Fields
Fields(line) == SelectSeq(line, LAMBDA x : x # SP)

PrefixGoos == <<"goos:", SP>>

PrefixGoarch == <<"goarch:", SP>>

PrefixCpu == <<"cpu:", SP>>

UnknownEnvironment == <<"unknown", SP, "environment">>

\* the part one trimmed line adds in the loop of extractEnvironment
EnvironmentPart(line) ==
    IF HasPrefix(line, PrefixGoos) THEN << TrimPrefix(line, PrefixGoos) >>
    ELSE IF HasPrefix(line, PrefixGoarch) THEN << TrimPrefix(line, PrefixGoarch) >>
    ELSE IF HasPrefix(line, PrefixCpu) THEN << PrefixCpu \o TrimSpace(TrimPrefix(line, PrefixCpu)) >>
    ELSE << >>

RECURSIVE EnvironmentParts(_)
EnvironmentParts(lines) ==
    IF Len(lines) = 0 THEN << >>
    ELSE EnvironmentPart(TrimSpace(lines[1])) \o EnvironmentParts(Tail(lines))

\* extractEnvironment without its sentinel
extractEnvironmentNoSentinel(text) == Join(EnvironmentParts(Split(text)), SP)

extractEnvironment(text) ==
    IF Len(EnvironmentParts(Split(text))) = 0 THEN UnknownEnvironment
    ELSE Join(EnvironmentParts(Split(text)), SP)

(***************************************************************************)
(* parse.ParseSet of golang.org/x/tools/benchmark/parse, as parseText and  *)
(* parseJSON call it.  N and Ord of parse.Benchmark are left out: nothing  *)
(* in this repository reads them.                                          *)
(***************************************************************************)
Numerals == {"1", "3", "5", "10"}

\* strconv.Atoi, strconv.ParseFloat on the numerals of the texts explored
Atoi(w) == CASE w = "1" -> 1 [] w = "3" -> 3 [] w = "5" -> 5 [] w = "10" -> 10

BenchmarkWords == {"BenchmarkA", "BenchmarkB"}

\* Benchmark.parseMeasurement: a (quantity, unit) pair of fields
parseMeasurement(b, quant, unit) ==
    IF quant \notin Numerals THEN b
    ELSE IF unit = "ns/op"
         THEN [b EXCEPT !.NsPerOp = Atoi(quant), !.Measured = @ \cup {MetricNsPerOp}]
    ELSE IF unit = "B/op"
         THEN [b EXCEPT !.AllocedBytesPerOp = Atoi(quant), !.Measured = @ \cup {MetricBytesPerOp}]
    ELSE IF unit = "allocs/op"
         THEN [b EXCEPT !.AllocsPerOp = Atoi(quant), !.Measured = @ \cup {MetricAllocsPerOp}]
    ELSE IF unit = "MB/s"
         THEN [b EXCEPT !.MBPerS = Atoi(quant), !.Measured = @ \cup {MetricMBPerS}]
    ELSE b

\* the loop of ParseLine over the pairs of fields after the first pair
RECURSIVE parseMeasurements(_, _, _)
parseMeasurements(b, fields, i) ==
    IF 2 * i + 2 > Len(fields) THEN b
    ELSE parseMeasurements(parseMeasurement(b, fields[2 * i + 1], fields[2 * i + 2]),
                           fields, i + 1)

\* parse.ParseLine
ParseLineFields(fields) ==
    IF Len(fields) < 2 THEN [b |-> Bench("", 0, 0, 0, 0, {}), err |-> TRUE]
    ELSE IF fields[1] \notin BenchmarkWords THEN [b |-> Bench("", 0, 0, 0, 0, {}), err |-> TRUE]
    ELSE IF fields[2] \notin Numerals THEN [b |-> Bench("", 0, 0, 0, 0, {}), err |-> TRUE]
    ELSE [b |-> parseMeasurements(Bench(fields[1], 0, 0, 0, 0, {}), fields, 1), err |-> FALSE]

ParseLine(line) == ParseLineFields(Fields(line))

\* bb[b.Name] = append(bb[b.Name], b)
Recorded(bb, b) ==
    [n \in DOMAIN bb \cup {b.Name} |->
        IF n = b.Name
        THEN (IF n \in DOMAIN bb THEN Append(bb[n], b) ELSE <<b>>)
        ELSE bb[n]]

RECURSIVE ParseLines(_, _)
ParseLines(bb, lines) ==
    IF Len(lines) = 0 THEN bb
    ELSE ParseLines(IF ParseLine(lines[1]).err THEN bb ELSE Recorded(bb, ParseLine(lines[1]).b),
                    Tail(lines))

\* parse.ParseSet
ParseSet(text) == ParseLines([n \in {} |-> << >>], ScanLines(text))

\* BenchmarkParser.parseText.  outputText is a history field: the text
\* handed to extractEnvironment and ParseSet
parseText(content) ==
    [Set |-> ParseSet(content), Environment |-> extractEnvironment(content),
     err |-> FALSE, outputText |-> content]

(***************************************************************************)
(* parser: the structured-event encoding.  The input of parseJSON is a     *)
(* sequence of lines; a line is the JSON text of an event (its Output      *)
(* written with the line feed escaped), a text that is not JSON, or empty. *)
(***************************************************************************)
EscapedLF == "\\n"

\* the JSON string of a payload, and json.Unmarshal's decoding of it
Escape(payload) == [i \in DOMAIN payload |-> IF payload[i] = LF THEN EscapedLF ELSE payload[i]]

Unescape(str) == [i \in DOMAIN str |-> IF str[i] = EscapedLF THEN LF ELSE str[i]]

EventLine(action, payload) == [kind |-> "event", Action |-> action, Output |-> Escape(payload)]

GarbageLine == [kind |-> "garbage", Action |-> "", Output |-> << >>]

EmptyLine == [kind |-> "empty", Action |-> "", Output |-> << >>]

\* json.Unmarshal with the escapes of the Output string left as written
UnmarshalKeepEscapes(line) ==
    IF line.kind = "event"
    THEN [Action |-> line.Action, Output |-> line.Output, err |-> FALSE]
    ELSE [Action |-> "", Output |-> << >>, err |-> TRUE]

\* json.Unmarshal(line, &event)
Unmarshal(line) ==
    IF line.kind = "event"
    THEN [Action |-> line.Action, Output |-> Unescape(line.Output), err |-> FALSE]
    ELSE [Action |-> "", Output |-> << >>, err |-> TRUE]

\* the scanner loop of parseJSON with the payload of every event collected
RECURSIVE CollectAnyAction(_)
CollectAnyAction(lines) ==
    IF Len(lines) = 0 THEN << >>
    ELSE (IF lines[1].kind = "empty" THEN << >>
          ELSE IF Unmarshal(lines[1]).err THEN << >>
          ELSE Unmarshal(lines[1]).Output)
         \o CollectAnyAction(Tail(lines))

\* the scanner loop of parseJSON: what textOutput holds after the lines
RECURSIVE Collect(_)
Collect(lines) ==
    IF Len(lines) = 0 THEN << >>
    ELSE (IF lines[1].kind = "empty" THEN << >>
          ELSE IF Unmarshal(lines[1]).err THEN << >>
          ELSE IF Unmarshal(lines[1]).Action = "output" /\ Unmarshal(lines[1]).Output # << >>
               THEN Unmarshal(lines[1]).Output
          ELSE << >>)
         \o Collect(Tail(lines))

\* BenchmarkParser.parseJSON
parseJSON(lines) == parseText(Collect(lines))

(***************************************************************************)
(* SpecParse: one call of parseText, parseJSON or extractEnvironment on a  *)
(* report text and on an encoding of it                                    *)
(***************************************************************************)
MaxLines == 2       \* lines in a report text

ReportLines ==
    { <<"goos:", SP, "linux">>,
      <<"goarch:", SP, "amd64">>,
      <<"cpu:", SP, "Intel">>,
      <<SP, "cpu:", SP, SP, "Intel", SP>>,
      <<"goos:", SP>>,
      <<"PASS">>,
      <<"BenchmarkA", SP, "10", SP, "3", SP, "ns/op">>,
      <<"BenchmarkA", SP, "10", SP, "5", SP, "ns/op", SP, "1", SP, "allocs/op">>,
      <<"BenchmarkB", SP, "10">> }

RECURSIVE Flatten(_)
Flatten(lines) ==
    IF Len(lines) = 0 THEN << >> ELSE lines[1] \o <<LF>> \o Flatten(Tail(lines))

ReportTexts == {Flatten(lines) : lines \in SeqsUpTo(ReportLines, MaxLines)}

\* the text cut after each position of cuts, and after its last item
RECURSIVE Chunks(_, _, _)
Chunks(text, cuts, from) ==
    IF from > Len(text) THEN << >>
    ELSE LET to == IF \E i \in cuts : i >= from
                   THEN FirstIndex({i \in cuts : i >= from})
                   ELSE Len(text)
         IN  <<SubSeq(text, from, to)>> \o Chunks(text, cuts, to + 1)

LineEnds(text) == {i \in DOMAIN text : text[i] = LF}

\* what "go test -json" writes for the text: one output event per line, or
\* the same with one more cut
OutputEvents(text, cut) ==
    LET chunks == Chunks(text, LineEnds(text) \cup cut, 1)
    IN  [i \in DOMAIN chunks |-> EventLine("output", chunks[i])]

\* lines that carry no output of the report
OtherLines ==
    { << >>,
      <<EventLine("run", << >>)>>,
      <<EventLine("pass", <<"PASS", LF>>)>>,
      <<EmptyLine>>,
      <<GarbageLine>>,
      <<GarbageLine, EventLine("skip", <<"goos:", SP, "plan9", LF>>)>> }

\* the output events with other lines inserted at one place
Interleavings(events) ==
    {SubSeq(events, 1, at) \o other \o SubSeq(events, at + 1, Len(events)) :
        at \in 0..Len(events), other \in OtherLines}

Encodings(text) ==
    UNION {Interleavings(OutputEvents(text, cut)) :
              cut \in {{}} \cup {{i} : i \in DOMAIN text}}

NoSet == [Set |-> [n \in {} |-> << >>], Environment |-> << >>, err |-> FALSE, outputText |-> << >>]

InitParse ==
    /\ raw = EmptyDoc
    /\ cfg = Indexed(EmptyDoc)
    /\ Idle
    /\ pc = "idle"
    /\ subject \in ReportTexts
    /\ path \in Encodings(subject)
    /\ ret = NoSet

CallParseText == Call("parseText", parseText(subject))

CallParseJSON == Call("parseJSON", parseJSON(path))

CallExtractEnvironment ==
    Call("extractEnvironment", [NoSet EXCEPT !.Environment = extractEnvironment(subject)])

NextParse ==
    \/ CallParseText
    \/ CallParseJSON

SpecParse == InitParse /\ [][NextParse]_vars

(***************************************************************************)
(* SpecEnvironment: one call of extractEnvironment on a report text        *)
(***************************************************************************)
MaxEnvironmentLines == 3    \* lines in a text handed to extractEnvironment

EnvironmentTexts == {Flatten(lines) : lines \in SeqsUpTo(ReportLines, MaxEnvironmentLines)}

InitEnvironment ==
    /\ raw = EmptyDoc
    /\ cfg = Indexed(EmptyDoc)
    /\ Idle
    /\ pc = "idle"
    /\ subject \in EnvironmentTexts
    /\ path = NoPath
    /\ ret = NoSet

NextEnvironment == CallExtractEnvironment

SpecEnvironment == InitEnvironment /\ [][NextEnvironment]_vars

\* the payloads of the events of action "output", in arrival order
RECURSIVE OutputPayloads(_)
OutputPayloads(lines) ==
    IF Len(lines) = 0 THEN << >>
    ELSE (IF lines[1].kind = "event" /\ lines[1].Action = "output"
          THEN Unescape(lines[1].Output) ELSE << >>)
         \o OutputPayloads(Tail(lines))

\* C17: the text parseJSON hands to the plain-text reduction is the
\* concatenation, in arrival order, of the payloads of the events of action
\* "output"; other events and lines that do not decode add nothing, and
\* parseJSON returns no error for them.
C17_OutputEventsOnly ==
    pc = "parseJSON" =>
        /\ ret.outputText = OutputPayloads(path)
        /\ ~ret.err

\* a line that does not decode and an event of another action with a
\* payload, followed by an output event whose payload is ingested
C17_Witness ==
    /\ pc = "parseJSON"
    /\ \E i \in DOMAIN path :
          /\ path[i] = GarbageLine
          /\ i + 2 \in DOMAIN path
          /\ path[i + 1].Action = "skip" /\ path[i + 1].Output # << >>
          /\ path[i + 2].Action = "output"
    /\ DOMAIN ret.Set # {}

RecognizedFields(text) ==
    LET lines == [i \in DOMAIN Split(text) |-> TrimSpace(Split(text)[i])]
        recognized == SelectSeq(lines, LAMBDA l : \/ HasPrefix(l, PrefixGoos)
                                                  \/ HasPrefix(l, PrefixGoarch)
                                                  \/ HasPrefix(l, PrefixCpu))
    IN  [i \in DOMAIN recognized |->
            IF HasPrefix(recognized[i], PrefixCpu)
            THEN PrefixCpu \o TrimSpace(SubSeq(recognized[i], 3, Len(recognized[i])))
            ELSE SubSeq(recognized[i], 3, Len(recognized[i]))]

\* the lines of the documented example
ScenarioB ==
    Flatten(<< <<"goos:", SP, "linux">>, <<"goarch:", SP, "amd64">>, <<"cpu:", SP, "Intel">> >>)

\* C18: extractEnvironment returns the recognized fields joined in source
\* order by one space: "linux amd64 cpu: Intel" for the lines goos: linux,
\* goarch: amd64, cpu: Intel; and "unknown environment", never the empty
\* string, when no line carries one of the three prefixes.
C18_ExtractEnvironment ==
    pc = "extractEnvironment" =>
        /\ ret.Environment # << >>
        /\ Len(RecognizedFields(subject)) = 0 => ret.Environment = UnknownEnvironment
        /\ Len(RecognizedFields(subject)) > 0 =>
              ret.Environment = Join(RecognizedFields(subject), SP)
        /\ subject = ScenarioB =>
              ret.Environment = <<"linux", SP, "amd64", SP, "cpu:", SP, "Intel">>

\* the documented example has been through extractEnvironment
C18_Witness ==
    /\ pc = "extractEnvironment"
    /\ subject = ScenarioB
    /\ ret.Environment = <<"linux", SP, "amd64", SP, "cpu:", SP, "Intel">>

(***************************************************************************)
(* load on documents with malformed patterns                               *)
(***************************************************************************)
PatternFunctions ==
    {<<Object("f1", m, n)>> : m \in {Ta, BadText}, n \in {EmptyText, BadText}}

PatternVersions == {<<Object("v1", m, EmptyText)>> : m \in {Ta, BadText}}

PatternContexts == {<<Object("c1", EmptyText, n)>> : n \in {Tb, BadText}}

\* at most one file rule, with or without a file-path pattern, with at most
\* one nested version entry and one nested context entry
PatternFiles ==
    { << >> } \cup
    { <<FileRule("r1", m, v, c)>> :
        m \in {EmptyText, Ta, BadText},
        v \in {<< >>, <<Object("v1", Tb, EmptyText)>>, <<Object("v1", BadText, EmptyText)>>,
               <<Object("v1", Ta, BadText)>>},
        c \in {<< >>, <<Object("c1", Tb, EmptyText)>>, <<Object("c1", EmptyText, BadText)>>} }

PatternDocs ==
    {Doc(f, v, c, r, <<Metric(MetricNsPerOp)>>, << >>, "") :
        f \in PatternFunctions, v \in PatternVersions, c \in PatternContexts,
        r \in PatternFiles}

InitPatterns ==
    /\ raw \in PatternDocs
    /\ cfg = Indexed(EmptyDoc)
    /\ sets = << >>
    /\ pc = "load"
    /\ si = 0
    /\ pending = {}
    /\ benchmarks = <<>>
    /\ log = <<>>
    /\ ci = 0
    /\ scenario = EmptyScenario
    /\ subject = NoPath
    /\ path = NoPath
    /\ ret = NoResult
    /\ NoCommand

SpecPatterns == InitPatterns /\ [][NextLoad]_vars

\* the entries of a document or configuration that carry an inclusion and
\* an exclusion pattern: catalog entries and entries nested in file rules
PatternEntries(c) ==
    Range(c.Functions) \cup Range(c.Versions) \cup Range(c.Contexts)
    \cup UNION {Range(c.Files[i].Versions) \cup Range(c.Files[i].Contexts) :
                    i \in DOMAIN c.Files}

MalformedPattern(r) ==
    \/ \E o \in PatternEntries(r) : o.Match.bad \/ o.NotMatch.bad
    \/ \E i \in DOMAIN r.Files : r.Files[i].MatchFile.bad

\* every non-empty pattern text of the configuration has its matcher
AllCompiled(c) ==
    /\ \A o \in PatternEntries(c) :
          /\ o.Match # EmptyText => o.match # Nil
          /\ o.NotMatch # EmptyText => o.notMatch # Nil
    /\ \A i \in DOMAIN c.Files :
          c.Files[i].MatchFile # EmptyText => c.Files[i].match # Nil

\* C21: a malformed inclusion or exclusion pattern in a catalog entry, in a
\* file rule's file-path pattern or in an entry nested in a file rule makes
\* load fail, and a configuration returned by load has a compiled matcher
\* beside every non-empty pattern text.
C21_PatternsCompiledAtLoad ==
    /\ (pc = "load" /\ MalformedPattern(raw)) => loadErr(raw) # <<>>
    /\ pc = "parseBenchmarks" => ~MalformedPattern(raw) /\ AllCompiled(cfg)

\* restricted to the catalogs, the file-path patterns and the entries nested
\* in a file rule that has a file-path pattern, the same statement
C21_RulesWithPath(c) ==
    [c EXCEPT !.Files = [i \in DOMAIN c.Files |->
        IF c.Files[i].MatchFile = EmptyText
        THEN [c.Files[i] EXCEPT !.Versions = << >>, !.Contexts = << >>]
        ELSE c.Files[i]]]

C21_WherePathIsSet ==
    pc = "parseBenchmarks" =>
        ~MalformedPattern(C21_RulesWithPath(raw)) /\ AllCompiled(C21_RulesWithPath(cfg))

\* load has accepted a file rule without file-path pattern whose nested
\* entry has a malformed pattern
C21_Accepted ==
    /\ pc = "parseBenchmarks"
    /\ \E i \in DOMAIN raw.Files :
          /\ raw.Files[i].MatchFile = EmptyText
          /\ \E o \in Range(raw.Files[i].Versions) \cup Range(raw.Files[i].Contexts) :
                o.Match.bad \/ o.NotMatch.bad

(***************************************************************************)
(* SpecExecute: one run of the command, from the configuration to the page *)
(***************************************************************************)
MaxArgs == 3        \* source arguments on the command line

\* the path of standard input on the command line, and the name of os.Stdin
Stdin == <<"-">>
DevStdin == <<"/dev/stdin">>

\* an error is the chain of its messages, outermost first; path is the
\* path the message quotes, NoPath when it quotes none
NoError == <<>>

\* fmt.Errorf("msg: %w", err), or fmt.Errorf("msg %q: %w", p, err)
Errorf(msg, p, err) == <<[msg |-> msg, path |-> p]>> \o err

\* *fs.PathError of os.Open and of (*os.File).Read
OpenError(name) == <<[msg |-> "open: no such file or directory", path |-> name]>>
ReadError(name) == <<[msg |-> "read: input/output error", path |-> name]>>

\* bufio.ErrTooLong
ErrTooLong == <<[msg |-> "bufio.Scanner: token too long", path |-> NoPath]>>

\* runtime error of a nil pointer dereference
NilDereference == <<[msg |-> "invalid memory address or nil pointer dereference", path |-> NoPath]>>

\* what a path holds: state is "ok", "noent" (os.Open fails), "eio" (reading
\* fails) or "toolong" (a line exceeds the scanner's buffer); Set and
\* Environment are what the content reduces to
Source(state, set, environment) ==
    [state |-> state, Set |-> set, Environment |-> environment]

ParsedSet(source) == [Set |-> source.Set, File |-> NoPath, Environment |-> source.Environment]

\* parseText on a reader of the source; name is the name of the *os.File
ReadText(source, name) ==
    IF source.state = "eio"
    THEN [set |-> NoSet, err |-> Errorf("reading input", NoPath, ReadError(name))]
    ELSE IF source.state = "toolong" THEN [set |-> NoSet, err |-> ErrTooLong]
    ELSE [set |-> ParsedSet(source), err |-> NoError]

\* parseJSON on a reader of the source
ReadJSON(source, name) ==
    IF source.state = "eio"
    THEN [set |-> NoSet, err |-> Errorf("scanning input", NoPath, ReadError(name))]
    ELSE IF source.state = "toolong"
    THEN [set |-> NoSet, err |-> Errorf("scanning input", NoPath, ErrTooLong)]
    ELSE [set |-> ParsedSet(source), err |-> NoError]

ParseInput(isJSON, source, name) ==
    IF isJSON THEN ReadJSON(source, name) ELSE ReadText(source, name)

\* "set.File = file"
TaggedStdinAsName(set, file) ==
    [set EXCEPT !.File = IF file = Stdin THEN DevStdin ELSE file]

Tagged(set, file) == [set EXCEPT !.File = file]

\* an entry of the trace: a call, the path it is about and the position of
\* that path among the arguments
Event(op, p, index) == [op |-> op, path |-> p, index |-> index]

ExecutePaths == {Stdin, <<"a">>, <<"b">>}

\* each path holds a report of one benchmark, named after the path
ExecuteName(p) == IF p = Stdin THEN <<"a", "b">> ELSE p

ExecuteSets ==
    {[p \in ExecutePaths |-> Source(st[p], [n \in {ExecuteName(p)} |-> <<First(n)>>], "env")] :
        st \in [ExecutePaths -> {"ok", "noent", "eio", "toolong"}]}

ExecuteArgs ==
    {a \in SeqsUpTo(ExecutePaths, MaxArgs) :
        Cardinality({i \in DOMAIN a : a[i] = Stdin}) <= 1}

ExecuteCategories == <<Category("k1", <<"f1">>, <<"x">>, <<"c1">>, <<MetricNsPerOp>>)>>

ExecuteDocs ==
    {Doc(<<Object("f1", m, EmptyText)>>, <<Object("x", TaEnd, EmptyText)>>,
         <<Object("c1", TaStart, EmptyText)>>, << >>, <<Metric(MetricNsPerOp)>>,
         ExecuteCategories, "") : m \in {TaStart, BadText}}

InitExecute ==
    /\ raw \in ExecuteDocs
    /\ cli \in {[args |-> a, IsJSON |-> j, Environment |-> "-"] :
                   a \in ExecuteArgs, j \in BOOLEAN}
    /\ fs \in {f \in ExecuteSets : f[Stdin].state # "noent"}
    /\ fi = 0
    /\ trace = <<>>
    /\ cfg = Indexed(EmptyDoc)
    /\ sets = << >>
    /\ pc = "prepareConfig"
    /\ si = 0
    /\ pending = {}
    /\ benchmarks = <<>>
    /\ log = <<>>
    /\ ci = 0
    /\ scenario = EmptyScenario
    /\ subject = NoPath
    /\ path = NoPath
    /\ ret = NoError

\* prepareConfig returns the configuration with the overrides of setConfig;
\* buildPage constructs the parser
PrepareConfig ==
    /\ pc = "prepareConfig"
    /\ loadErr(raw) = <<>>
    /\ cfg' = [load(raw) EXCEPT !.Environment = IF cli.Environment # ""
                                                THEN cli.Environment ELSE @]
    /\ pc' = "ParseFiles"
    /\ UNCHANGED <<raw, sets, si, pending, benchmarks, log, ci, scenario, subject, path, ret, cli, fs, fi, trace>>

\* prepareConfig returns (nil, nil, err): execute does not test err and
\* calls buildPage(nil, args), whose first statement reads cfg.IsJSON
PrepareConfigFail ==
    /\ pc = "prepareConfig"
    /\ loadErr(raw) # <<>>
    /\ pc' = "panic"
    /\ ret' = NilDereference
    /\ UNCHANGED <<raw, cfg, sets, si, pending, benchmarks, log, ci, scenario, subject, path, cli, fs, fi, trace>>

\* ParseFiles: one turn of "for _, file := range files"; an error is
\* returned through buildPage, which wraps it, and execute
ParseFile ==
    /\ pc = "ParseFiles"
    /\ fi < Len(cli.args)
    /\ LET file == cli.args[fi + 1]
           opened == IF file = Stdin THEN <<>> ELSE <<Event("os.Open", file, fi + 1)>>
           out == ParseInput(cli.IsJSON, fs[file], IF file = Stdin THEN DevStdin ELSE file)
       IN  IF file # Stdin /\ fs[file].state = "noent"
           THEN /\ ret' = Errorf("parsing files", NoPath,
                                 Errorf("input file", file, OpenError(file)))
                /\ trace' = trace \o opened
                /\ pc' = "failed"
                /\ UNCHANGED <<sets, fi>>
           ELSE IF out.err # NoError
           THEN /\ ret' = Errorf("parsing files", NoPath, out.err)
                /\ trace' = trace \o opened \o <<Event("ParseInput", file, fi + 1)>>
                /\ pc' = "failed"
                /\ UNCHANGED <<sets, fi>>
           ELSE /\ sets' = Append(sets, Tagged(out.set, file))
                /\ fi' = fi + 1
                /\ trace' = trace \o opened \o <<Event("ParseInput", file, fi + 1)>>
                /\ UNCHANGED <<pc, ret>>
    /\ UNCHANGED <<raw, cfg, si, pending, benchmarks, log, ci, scenario, subject, path, cli, fs>>

\* ParseFiles returns nil: buildPage calls Scenarize(p.Sets())
CallScenarize ==
    /\ pc = "ParseFiles"
    /\ fi = Len(cli.args)
    /\ trace' = Append(trace, Event("Scenarize", NoPath, 0))
    /\ pc' = "parseBenchmarks"
    /\ UNCHANGED <<raw, cfg, sets, si, pending, benchmarks, log, ci, scenario, subject, path, ret, cli, fs, fi>>

\* buildPage builds the page of the scenario and execute renders it
Render ==
    /\ pc = "done"
    /\ trace' = trace \o <<Event("BuildPage", NoPath, 0), Event("Render", NoPath, 0)>>
    /\ pc' = "rendered"
    /\ UNCHANGED <<raw, cfg, sets, si, pending, benchmarks, log, ci, scenario, subject, path, ret, cli, fs, fi>>

NextExecute ==
    \/ PrepareConfig
    \/ PrepareConfigFail
    \/ ParseFile
    \/ CallScenarize
    \/ NextSet
    \/ VisitName
    \/ EndParse
    \/ PopulateCategory
    \/ Return
    \/ Render

SpecExecute == InitExecute /\ [][NextExecute]_vars

\* the sources the run has opened or read, in order
SourceEvents == SelectSeq(trace, LAMBDA e : e.op \in {"os.Open", "ParseInput"})

\* ParseFiles has returned an error at the source of position fi + 1
IngestionFailed == pc = "failed"

\* C22: sources are ingested in the order supplied and ingestion is
\* fail-fast: the parser holds one Set per source ingested so far, in
\* argument order, each tagged with the path as supplied; when a source
\* fails to open or read, the run returns an error, no later source is
\* opened or read, and Scenarize is not called.
C22_OrderedFailFast ==
    /\ pc \notin {"prepareConfig", "panic"} =>
          /\ Len(sets) = fi
          /\ \A k \in 1..fi :
                sets[k] = [Set |-> fs[cli.args[k]].Set, File |-> cli.args[k],
                           Environment |-> fs[cli.args[k]].Environment]
          /\ \A k \in 1..Len(SourceEvents) - 1 :
                SourceEvents[k].index <= SourceEvents[k + 1].index
    /\ IngestionFailed =>
          /\ ret # NoError
          /\ fs[cli.args[fi + 1]].state # "ok"
          /\ \A k \in DOMAIN trace :
                /\ trace[k].index <= fi + 1
                /\ trace[k].op \notin {"Scenarize", "BuildPage", "Render"}
          /\ benchmarks = <<>> /\ scenario = EmptyScenario
    /\ pc \in {"parseBenchmarks", "populateCategories", "done", "rendered"} =>
          fi = Len(cli.args)

\* the second of three sources has failed after the first was ingested
C22_Witness ==
    /\ IngestionFailed
    /\ fi = 1
    /\ Len(cli.args) = 3
    /\ cli.args[1] = Stdin
    /\ sets[1].File = Stdin

\* the source ParseFiles was at when it returned an error
Offending == cli.args[fi + 1]

\* an error that quotes path p in one of its messages
Quotes(err, p) == \E k \in DOMAIN err : err[k].path = p

\* C23: every error returned by ParseFiles carries the path of the
\* offending source, when the source cannot be opened and when it opens but
\* reading or reducing its content fails.
C23_ErrorsCarryPath == IngestionFailed => Quotes(ret, Offending)

\* the case of a source that cannot be opened: the error is wrapped with
\* its path
C23_OpenErrorsCarryPath ==
    (IngestionFailed /\ fs[Offending].state = "noent") =>
        \E k \in DOMAIN ret : ret[k].msg = "input file" /\ ret[k].path = Offending

\* a source with a line beyond the scanner's buffer has failed
C23_ReduceFailed == IngestionFailed /\ fs[Offending].state = "toolong"

(***************************************************************************)
(* SpecTwice: Scenarize called twice on the same sets                      *)
(***************************************************************************)
\* f1 takes the names with an "a", x those with a "b": the names "a b" and
\* "b a" classify to the same function, version and context
TwiceDocs ==
    {Doc(<<Object("f1", f, EmptyText)>>, <<Object("x", v, EmptyText)>>,
         <<Object("x", TbEnd, EmptyText)>>, << >>, <<Metric(MetricNsPerOp)>>,
         <<Category("k1", <<"f1">>, <<"x">>, <<"x">>, <<MetricNsPerOp>>)>>, "") :
        f \in {Ta, TaStart, BadText}, v \in {Tb, TbEnd}}

\* sets of at most MaxNames names, one of which may carry another value
TwiceSets ==
    {[n \in names |-> IF n \in other THEN <<Second(n)>> ELSE <<First(n)>>] :
        names \in {ns \in SUBSET Subjects : Cardinality(ns) <= MaxNames},
        other \in {ns \in SUBSET Subjects : Cardinality(ns) <= 1}}

InitTwice ==
    /\ raw \in TwiceDocs
    /\ cfg = Indexed(EmptyDoc)
    /\ sets \in {<<[Set |-> s, File |-> <<"a">>, Environment |-> "env"]>> : s \in TwiceSets}
    /\ pc = "load"
    /\ si = 0
    /\ pending = {}
    /\ benchmarks = <<>>
    /\ log = <<>>
    /\ ci = 0
    /\ scenario = EmptyScenario
    /\ subject = NoPath
    /\ path = NoPath
    /\ ret = <<>>
    /\ NoCommand

\* the caller keeps the Scenario returned and calls Scenarize(sets) again
ScenarizeAgain ==
    /\ pc = "done"
    /\ ret = <<>>
    /\ ret' = <<scenario>>
    /\ pc' = "parseBenchmarks"
    /\ si' = 0
    /\ pending' = {}
    /\ benchmarks' = <<>>
    /\ ci' = 0
    /\ scenario' = EmptyScenario
    /\ UNCHANGED <<raw, cfg, sets, log, subject, path, cli, fs, fi, trace>>

NextTwice ==
    \/ Next
    \/ ScenarizeAgain

SpecTwice == InitTwice /\ [][NextTwice]_vars

\* model.MetricPoint, model.MetricSeries, model.CategoryData, model.Category
\* and model.Scenario as the caller sees them
VisiblePoints(points) ==
    [q \in DOMAIN points |-> [Name |-> points[q].Name, Value |-> points[q].Value]]

VisibleSeries(series) ==
    [s \in DOMAIN series |->
        [Title |-> series[s].Title, Points |-> VisiblePoints(series[s].Points)]]

VisibleData(data) ==
    [d \in DOMAIN data |->
        [Metric |-> data[d].Metric, Version |-> data[d].Version,
         Series |-> VisibleSeries(data[d].Series)]]

Visible(s) ==
    [k \in DOMAIN s.Categories |->
        [ID |-> s.Categories[k].ID, Environment |-> s.Categories[k].Environment,
         Data |-> VisibleData(s.Categories[k].Data)]]

\* C24: aggregation is deterministic and idempotent: the second call of
\* Scenarize on the same sets with the same configuration returns a
\* Scenario identical to the first, with the same Series and the same
\* Points in the same order.
C24_ScenarizeTwice ==
    (pc = "done" /\ ret # <<>>) => Visible(scenario) = Visible(ret[1])

\* the same, for sets in which no two names classify to the same function,
\* version and context
C24_DistinctKeys ==
    (pc = "done" /\ ret # <<>>
        /\ \A i \in DOMAIN benchmarks : \A j \in DOMAIN benchmarks :
              (/\ benchmarks[i].Function = benchmarks[j].Function
               /\ benchmarks[i].Version = benchmarks[j].Version
               /\ benchmarks[i].Context = benchmarks[j].Context)
              => benchmarks[i].src[2] = benchmarks[j].src[2])
    => Visible(scenario) = Visible(ret[1])

\* C25: the Scenario returned by populateCategories has exactly one
\* Category per configured category, in catalog order: as many Categories
\* as the configuration has categories, the k-th carrying the identifier of
\* the k-th configured category, and no empty placeholder.
C25_OneCategoryPerConfigured ==
    pc = "done" =>
        /\ Len(scenario.Categories) = Len(cfg.Categories)
        /\ \A k \in DOMAIN scenario.Categories :
              /\ k \in DOMAIN cfg.Categories
              /\ scenario.Categories[k].ID = cfg.Categories[k].ID
              /\ scenario.Categories[k] # ZeroCategory

\* what the returned Scenario holds: a placeholder per configured category,
\* then the categories built, in catalog order
C25_PlaceholdersThenBuilt ==
    pc = "done" =>
        /\ Len(scenario.Categories) = 2 * Len(cfg.Categories)
        /\ \A k \in DOMAIN cfg.Categories :
              /\ scenario.Categories[k] = ZeroCategory
              /\ scenario.Categories[Len(cfg.Categories) + k].ID = cfg.Categories[k].ID

\* the error prepareConfig returns when the configuration cannot be loaded
LoadingConfigError ==
    Errorf("loading config", NoPath, <<[msg |-> loadErr(raw)[2], path |-> NoPath]>>)

\* C26: a load-time failure aborts the run before any ingestion: when
\* prepareConfig fails, execute returns that error, and no source is opened
\* and neither the parser, the organizer nor a renderer is called.
C26_LoadFailureAborts ==
    (loadErr(raw) # <<>> /\ pc # "prepareConfig") =>
        /\ pc = "failed"
        /\ ret = LoadingConfigError
        /\ trace = <<>>
        /\ sets = <<>> /\ benchmarks = <<>> /\ scenario = EmptyScenario

\* the part that holds: after a load failure nothing is opened or called
C26_NothingIngested ==
    (loadErr(raw) # <<>> /\ pc # "prepareConfig") =>
        /\ trace = <<>>
        /\ sets = <<>> /\ benchmarks = <<>> /\ scenario = EmptyScenario

\* the run has ended in a panic after prepareConfig failed
C26_Panicked == pc = "panic" /\ loadErr(raw) # <<>> /\ ret = NilDereference


=============================================================================
